---- MODULE Spec2Model ----
(***************************************************************************)
(* A model of the oil-well extraction pipeline: pdf_extractor.py (the      *)
(* field cascades, the table reconciler, the stimulation segmenter, the    *)
(* per-document orchestrator and the batch that persists into SQLite).     *)
(*                                                                         *)
(* Conventions.  A Python optional is a set with at most one element:      *)
(* None is {} and a value v is {v}.  A Python string that the code takes   *)
(* apart (identifiers, table cells) is a sequence of one-character         *)
(* strings; a string that the code only compares is a TLA+ string.         *)
(***************************************************************************)
EXTENDS Integers, Sequences, FiniteSets, TLC

None == {}
Some(v) == {v}
The(x) == CHOOSE v \in x : TRUE

Min(S) == CHOOSE m \in S : \A n \in S : m <= n

\* F applied to the value of v, which is computed once
With(v, F(_)) == The({F(x) : x \in {v}})

(***************************************************************************)
(* Characters and the regular-expression primitives the patterns use.      *)
(***************************************************************************)
Digit == {"0", "1", "2", "3", "4", "5", "6", "7", "8", "9"}

\* the characters of the model's alphabet that \w does not match
NonWordChar == {" ", "-", ".", ",", "#", ":", "/", "%"}

IsWordChar(c) == c \notin NonWordChar

\* \s* from position i: the position of the first non-blank
RECURSIVE SkipWs(_, _)
SkipWs(s, i) == IF i <= Len(s) /\ s[i] = " " THEN SkipWs(s, i + 1) ELSE i

\* \d{n} at position i
AllDigits(s, i, n) ==
    /\ i >= 1
    /\ i + n - 1 <= Len(s)
    /\ \A t \in i..(i + n - 1) : s[t] \in Digit

\* \b at the position e that follows a word character
WordEnd(s, e) == e > Len(s) \/ ~IsWordChar(s[e])

\* \b at the position i that starts with a word character
WordStart(s, i) == i = 1 \/ ~IsWordChar(s[i - 1])

\* str.strip() on blanks
RECURSIVE RStrip(_)
RStrip(s) ==
    IF s # <<>> /\ s[Len(s)] = " " THEN RStrip(SubSeq(s, 1, Len(s) - 1)) ELSE s

Strip(s) == With(s, LAMBDA t : RStrip(SubSeq(t, SkipWs(t, 1), Len(t))))

(***************************************************************************)
(* extract_api.  The text is a sequence of lines, each a label and the     *)
(* value that follows it on the line.                                      *)
(***************************************************************************)

\* labels matched by  API\s*[:#]?\s*
BareApiLabels == {"API", "API #", "API:"}

\* labels matched by  API\s*[#:\s]*
P1ApiLabels == BareApiLabels \cup {"API #:"}

\* labels matched by  API\s+(?:No\.?|Number|JOB\s*#?)\s*[:\s]*
NumberedApiLabels == {"API No.", "API Number", "API JOB #"}

\* labels matched by the survey/permit section header
SurveyHeaders == {"Directional Survey", "Survey Report", "Well Completion",
                  "APPLICATION FOR PERMIT"}

\* the lines of the survey block: the header line and the (?:.*\n){0,20} after it
SurveyWindow == 20

\* the separator between two digit groups; 0 when it does not match at i
AfterSep(s, i, kind) ==
    CASE kind = "dash" -> IF i <= Len(s) /\ s[i] = "-" THEN i + 1 ELSE 0
      [] kind = "wsdash" ->
            With(SkipWs(s, i), LAMBDA a :
                IF a <= Len(s) /\ s[a] = "-" THEN SkipWs(s, a + 1) ELSE 0)
      [] kind = "optdash" ->
            With(SkipWs(s, i), LAMBDA a :
                SkipWs(s, IF a <= Len(s) /\ s[a] = "-" THEN a + 1 ELSE a))
      [] kind = "ws" -> With(SkipWs(s, i), LAMBDA a : IF a > i THEN a ELSE 0)

\* (\d{2}) sep (\d{3}) sep (\d{5}) at position i: the three groups and the
\* position after the match, or <<>>
MatchGroups(s, i, kind) ==
    IF ~AllDigits(s, i, 2) THEN <<>>
    ELSE With(AfterSep(s, i + 2, kind), LAMBDA a :
            IF a = 0 \/ ~AllDigits(s, a, 3) THEN <<>>
            ELSE With(AfterSep(s, a + 3, kind), LAMBDA b :
                    IF b = 0 \/ ~AllDigits(s, b, 5) THEN <<>>
                    ELSE <<SubSeq(s, i, i + 1), SubSeq(s, a, a + 2),
                           SubSeq(s, b, b + 4), b + 5>>))

\* the length of the digit run at the start of s
RECURSIVE DigitRun(_, _)
DigitRun(s, i) == IF i <= Len(s) /\ s[i] \in Digit THEN DigitRun(s, i + 1) ELSE i - 1

\* (\d{10,11})\b at the start of s: the run, or <<>>
RawRun(s) ==
    With(DigitRun(s, 1), LAMBDA n :
        IF n \in {10, 11} /\ WordEnd(s, n + 1) THEN SubSeq(s, 1, n) ELSE <<>>)

\* the six labelled patterns, in the order of the list: the groups of the
\* match of pattern p on line ln (three groups, or the one raw run), or <<>>
ApiPattern(p, ln) ==
    LET three(labels, kind, bounded) ==
            IF ln.label \notin labels THEN <<>>
            ELSE With(MatchGroups(ln.val, 1, kind), LAMBDA g :
                    IF g # <<>> /\ (bounded => WordEnd(ln.val, g[4]))
                    THEN SubSeq(g, 1, 3) ELSE <<>>)
    IN  CASE p = 1 -> three(P1ApiLabels, "dash", FALSE)
          [] p = 2 -> three(BareApiLabels, "wsdash", FALSE)
          [] p = 3 -> three(BareApiLabels, "optdash", FALSE)
          [] p = 4 -> three(NumberedApiLabels, "dash", FALSE)
          [] p = 5 -> three(NumberedApiLabels, "ws", TRUE)
          [] p = 6 -> IF ln.label \notin BareApiLabels THEN <<>>
                      ELSE With(RawRun(ln.val), LAMBDA raw :
                              IF raw # <<>> THEN <<raw>> ELSE <<>>)

NumApiPatterns == 6

\* the reformatting of a match (the body of `if m:`)
FormatApi(m) ==
    LET dashed(a, b, c) == a \o <<"-">> \o b \o <<"-">> \o c
    IN  IF Len(m) = 3 THEN dashed(m[1], m[2], m[3])
        ELSE LET raw == m[1]
             IN  IF Len(raw) = 10
                 THEN dashed(SubSeq(raw, 1, 2), SubSeq(raw, 3, 5), SubSeq(raw, 6, 10))
                 ELSE IF Len(raw) = 11 /\ SubSeq(raw, 1, 2) = <<"3", "3">>
                 THEN dashed(<<"3", "3">>, SubSeq(raw, 4, 6), SubSeq(raw, 7, 11))
                 ELSE IF Len(raw) >= 10
                 THEN dashed(SubSeq(raw, 1, 2), SubSeq(raw, 3, 5), SubSeq(raw, 6, 10))
                 ELSE raw

\* re.search of one pattern in one region: the match on the first line that has one
FirstApiMatch(region, p) ==
    With({i \in 1..Len(region) : ApiPattern(p, region[i]) # <<>>}, LAMBDA hits :
        IF hits = {} THEN <<>> ELSE ApiPattern(p, region[Min(hits)]))

\* the survey block when the text has one, then the whole text
ApiRegions(text) ==
    LET heads == {i \in 1..Len(text) : text[i].label \in SurveyHeaders}
    IN  IF heads = {} THEN <<text>>
        ELSE LET h == Min(heads)
                 last == IF h + SurveyWindow - 1 < Len(text)
                         THEN h + SurveyWindow - 1 ELSE Len(text)
             IN  <<SubSeq(text, h, last), text>>

\* a pattern searched anywhere in the values of the text: the groups of the
\* first match.  Used by the two unlabelled fallbacks.
SearchGroups(text, kind, lead, bounded) ==
    LET at(ln, i) ==
            With(MatchGroups(ln.val, i, kind), LAMBDA g :
                IF /\ g # <<>>
                   /\ (lead # <<>> => g[1] = lead /\ WordStart(ln.val, i))
                   /\ (bounded => WordEnd(ln.val, g[4]))
                THEN g ELSE <<>>)
        hitsOf(ln) == {i \in 1..Len(ln.val) : at(ln, i) # <<>>}
    IN  With({n \in 1..Len(text) : hitsOf(text[n]) # {}}, LAMBDA lines :
            IF lines = {} THEN <<>>
            ELSE With(text[Min(lines)], LAMBDA ln :
                    With(hitsOf(ln), LAMBDA hits : SubSeq(at(ln, Min(hits)), 1, 3))))

\* the first region, and in it the first pattern, that has a match
FirstHit(hits) ==
    CHOOSE rp \in hits :
        \A o \in hits : rp[1] < o[1] \/ (rp[1] = o[1] /\ rp[2] <= o[2])

extract_api(text) ==
    With(ApiRegions(text), LAMBDA regions :
      With({rp \in (1..Len(regions)) \X (1..NumApiPatterns) :
                FirstApiMatch(regions[rp[1]], rp[2]) # <<>>}, LAMBDA hits :
        IF hits # {}
        THEN With(FirstHit(hits), LAMBDA first :
                With(FirstApiMatch(regions[first[1]], first[2]),
                     LAMBDA m : Some(FormatApi(m))))
        ELSE With(SearchGroups(text, "ws", <<"3", "3">>, TRUE), LAMBDA spaced :
                IF spaced # <<>> THEN Some(FormatApi(spaced))
                ELSE With(SearchGroups(text, "dash", <<>>, TRUE), LAMBDA dashed :
                        IF dashed # <<>> THEN Some(FormatApi(dashed)) ELSE None))))

(***************************************************************************)
(* Value parsers.  A parsed float is an integer count of millionths.       *)
(***************************************************************************)

DigitVal(c) ==
    CASE c = "0" -> 0 [] c = "1" -> 1 [] c = "2" -> 2 [] c = "3" -> 3
      [] c = "4" -> 4 [] c = "5" -> 5 [] c = "6" -> 6 [] c = "7" -> 7
      [] c = "8" -> 8 [] c = "9" -> 9

RECURSIVE DigitsValue(_)
DigitsValue(s) ==
    IF s = <<>> THEN 0
    ELSE 10 * DigitsValue(SubSeq(s, 1, Len(s) - 1)) + DigitVal(s[Len(s)])

\* the position of the last character of the match of  -?\d+\.?\d*  that
\* starts at i, or 0 when none starts there
NumberEnd(s, i) ==
    With(IF i <= Len(s) /\ s[i] = "-" THEN i + 1 ELSE i, LAMBDA d :
        IF ~(d <= Len(s) /\ s[d] \in Digit) THEN 0
        ELSE With(DigitRun(SubSeq(s, d, Len(s)), 1) + d - 1, LAMBDA e :
                IF e + 1 <= Len(s) /\ s[e + 1] = "."
                THEN DigitRun(SubSeq(s, e + 2, Len(s)), 1) + e + 1
                ELSE e))

\* re.findall(r'-?\d+\.?\d*', s)
RECURSIVE NumberTokens(_, _)
NumberTokens(s, i) ==
    IF i > Len(s) THEN <<>>
    ELSE With(NumberEnd(s, i), LAMBDA e :
            IF e = 0 THEN NumberTokens(s, i + 1)
            ELSE <<SubSeq(s, i, e)>> \o NumberTokens(s, e + 1))

RECURSIVE Pow10(_)
Pow10(n) == IF n = 0 THEN 1 ELSE 10 * Pow10(n - 1)

\* float() of one token of the shape -?\d+\.?\d*, scaled by 10^places
\* (digits after that many decimals are dropped)
TokenScaled(tok, places) ==
    With(IF tok[1] = "-" THEN Tail(tok) ELSE tok, LAMBDA body :
      With(DigitRun(body, 1), LAMBDA n :
        With(IF n < Len(body) THEN SubSeq(body, n + 2, Len(body)) ELSE <<>>, LAMBDA frac :
          With(DigitsValue(SubSeq(body, 1, n)) * Pow10(places)
               + DigitsValue(SubSeq(frac \o <<"0", "0", "0", "0", "0", "0">>, 1, places)),
               LAMBDA v : IF tok[1] = "-" THEN 0 - v ELSE v))))

TokenMicro(tok) == TokenScaled(tok, 6)

\* the components of a DMS string are kept to thousandths
TokenMilli(tok) == TokenScaled(tok, 3)

\* float(raw): the value, or None where Python raises ValueError
ParseFloat(raw) ==
    With(Strip(raw), LAMBDA t :
        With(NumberTokens(t, 1), LAMBDA toks :
            IF Len(toks) = 1 /\ toks[1] = t THEN Some(TokenMicro(t)) ELSE None))

\* n / d rounded to the nearest integer, ties to even (round())
RoundDiv(n, d) ==
    LET q == n \div d
        r == n % d
    IN  IF 2 * r > d \/ (2 * r = d /\ q % 2 = 1) THEN q + 1 ELSE q

HasChar(s, cs) == \E i \in 1..Len(s) : s[i] \in cs

MinutesLimit == 60

\* abs(deg) + mins / 60 + secs / 3600, rounded to 6 places, in millionths
DmsValue(deg, mins, secs, west_or_south) ==
    With((IF deg < 0 THEN 0 - deg ELSE deg) * 1000 + RoundDiv((mins * 60 + secs) * 5, 18),
         LAMBDA dec :
            IF mins >= MinutesLimit * 1000 \/ secs >= MinutesLimit * 1000 THEN None
            ELSE IF deg < 0 \/ west_or_south THEN Some(0 - dec)
            ELSE Some(dec))

dms_to_decimal(dms_str) ==
    With(dms_str, LAMBDA str :
        IF Strip(str) = <<>> THEN None
        ELSE With(NumberTokens(str, 1), LAMBDA parts :
                IF Len(parts) < 3 THEN None
                ELSE With(<<TokenMilli(parts[1]), TokenMilli(parts[2]), TokenMilli(parts[3])>>,
                          LAMBDA v : DmsValue(v[1], v[2], v[3],
                                              HasChar(str, {"W", "w", "S", "s"})))))

(***************************************************************************)
(* normalize_date_to_iso.  A date string is its numeric components and the *)
(* character that separates them; the ISO output is <<y, m, d>> with "-".  *)
(***************************************************************************)
DATE_2DIGIT_YEAR_CUTOFF == 50

DaysInMonth(y, m) ==
    IF m \in {4, 6, 9, 11} THEN 30
    ELSE IF m = 2
         THEN IF (y % 4 = 0 /\ y % 100 # 0) \/ y % 400 = 0 THEN 29 ELSE 28
         ELSE 31

\* datetime(y, mo, day) does not raise
ValidDate(y, mo, day) ==
    /\ y \in 1..9999
    /\ mo \in 1..12
    /\ day \in 1..DaysInMonth(y, mo)

\* a normalizer that tries (month, day) = (b, a) before (a, b)
DayBeforeMonth(date_str) ==
    IF date_str = None THEN None
    ELSE LET ds == The(date_str)
             a == ds.n[2]
             b == ds.n[1]
             c == IF ds.n[3] < 100
                  THEN IF ds.n[3] < DATE_2DIGIT_YEAR_CUTOFF
                       THEN ds.n[3] + 2000 ELSE ds.n[3] + 1900
                  ELSE ds.n[3]
         IN  IF ds.sep = "-" \/ Len(ds.n) # 3 THEN None
             ELSE IF ValidDate(c, a, b) THEN Some([n |-> <<c, a, b>>, sep |-> "-"])
             ELSE IF ValidDate(c, b, a) THEN Some([n |-> <<c, b, a>>, sep |-> "-"])
             ELSE None

normalize_date_to_iso(date_str) ==
    \* every character but digits, "/" and "-" becomes "/"; the split is on "/" alone
    IF date_str = None THEN None
    ELSE LET ds == The(date_str)
             sep == IF ds.sep = "-" THEN "-" ELSE "/"
         IN  IF sep # "/" \/ Len(ds.n) # 3 THEN None
             ELSE LET a == ds.n[1]
                      b == ds.n[2]
                      c == IF ds.n[3] < 100
                           THEN IF ds.n[3] < DATE_2DIGIT_YEAR_CUTOFF
                                THEN ds.n[3] + 2000 ELSE ds.n[3] + 1900
                           ELSE ds.n[3]
                  IN  IF a \in 1..12 /\ b \in 1..31 /\ ValidDate(c, a, b)
                      THEN Some([n |-> <<c, a, b>>, sep |-> "-"])
                      ELSE IF b \in 1..12 /\ a \in 1..31 /\ ValidDate(c, b, a)
                      THEN Some([n |-> <<c, b, a>>, sep |-> "-"])
                      ELSE None

(***************************************************************************)
(* extract_stimulations.  The text is a sequence of lines; a line is what  *)
(* the patterns of the segmenter can see in it:                            *)
(*   kind      "boundary"  the line holds a 'Date Stimulated' header (the  *)
(*                         other fields describe the rest of the line),    *)
(*             "typehdr"   it holds 'Type Treatment',                      *)
(*             "details"   it starts with 'Details' (the other fields      *)
(*                         describe the rest of the line),                 *)
(*             "mesh"      it names a proppant (Mesh, White, Ceramic ...),  *)
(*             "stop"      ADDITIONAL / I hereby,                          *)
(*             "line"      anything else;                                  *)
(*   formHdr   it matches a 'Stimulated Formation' header variant;         *)
(*   date      the date token it starts with;                              *)
(*   lead      the numeric tokens before its formation word;               *)
(*   formation the alphabetic run before its numbers;                      *)
(*   type      the treatment-type keyword its numbers follow;              *)
(*   nums      its other numeric tokens, in order;                         *)
(*   acid      the number captured by an acid-percentage ordering;         *)
(*   acid_inline  the number that follows the word 'Acid' when the word is *)
(*             not at the start of the line and no '%' follows: only the   *)
(*             block-wide search, whose third ordering is unanchored, sees *)
(*             it;                                                         *)
(*   units     the volume unit word it holds;                              *)
(*   words     it holds other text.                                        *)
(* The two OCR repairs of 'll'/'l' glyphs inside numbers are not modelled: *)
(* the tokens are numbers already.                                         *)
(***************************************************************************)
StimBlank(l) ==
    /\ ~l.formHdr /\ ~l.words
    /\ l.date = None /\ l.formation = None /\ l.type = None
    /\ l.acid = None /\ l.acid_inline = None /\ l.units = None
    /\ l.lead = <<>> /\ l.nums = <<>>

\* the rest of a marker line, as a line of the block
AsLine(l) == [l EXCEPT !.kind = "line"]

\* re.split on the boundary phrase; each part is its non-blank lines
RECURSIVE SplitParts(_, _, _, _)
SplitParts(text, i, cur, acc) ==
    IF i > Len(text) THEN Append(acc, cur)
    ELSE IF text[i].kind = "boundary"
    THEN SplitParts(text, i + 1,
                    IF StimBlank(text[i]) THEN <<>> ELSE <<AsLine(text[i])>>,
                    Append(acc, cur))
    ELSE SplitParts(text, i + 1,
                    IF text[i].kind = "line" /\ StimBlank(text[i])
                    THEN cur ELSE Append(cur, text[i]),
                    acc)

\* blocks = [p.strip() for p in parts if p.strip()][1:]
StimBlocks(text) ==
    With(SelectSeq(SplitParts(text, 1, <<>>, <<>>), LAMBDA p : p # <<>>), LAMBDA parts :
        IF parts = <<>> THEN <<>> ELSE Tail(parts))

\* lines[a:b] of Python, as a set of positions
PySlice(lines, a, b) == {i \in 1..Len(lines) : a < i /\ i <= b}

FormHeaderWindow == 5
DataLineWindow == 8

\* the numeric tokens \d[\d,]*\.?\d* of a line
DateTokens(l) == IF l.date = None THEN <<>> ELSE The(l.date).n

AllTokens(l) == DateTokens(l) \o l.lead \o l.nums

LongDigitRun == 100000

\* the data line of a block: its position, or 0
DataLine(lines) ==
    LET dated == {i \in 1..Len(lines) : lines[i].date # None}
        many == {i \in PySlice(lines, 1, DataLineWindow) :
                    Len(AllTokens(lines[i])) >= 4}
        frac == {i \in PySlice(lines, 1, DataLineWindow) :
                    /\ lines[i].type \in {Some("Sand Frac"), Some("Acid Frac"),
                                           Some("Frac")}
                    /\ \E t \in 1..Len(AllTokens(lines[i])) :
                          AllTokens(lines[i])[t] >= LongDigitRun}
    IN  IF dated # {} THEN Min(dated)
        ELSE IF many # {} THEN Min(many)
        ELSE IF frac # {} THEN Min(frac)
        ELSE 0

\* the formation of the data line: the alphabetic run that a date (or a run
\* of two to four digits) precedes and a run of at least three digits follows
ThreeDigits == 100

StimFormation(l) ==
    IF /\ l.formation # None
       /\ l.nums # <<>> /\ l.nums[1] >= ThreeDigits
       /\ \/ l.date # None
          \/ (l.lead # <<>> /\ l.lead[Len(l.lead)] >= 10)
    THEN l.formation ELSE None

\* the numeric tokens of the text after the formation (of the whole line
\* when there is none)
StimNums(l) == IF StimFormation(l) # None THEN l.nums ELSE AllTokens(l)

SmallToken == 100
YearFrom == 1990
YearTo == 2100
MaxStages == 200

\* skip year/small so not top_ft
RECURSIVE SkipLeading(_, _)
SkipLeading(nums, i) ==
    IF i <= Len(nums) /\ (nums[i] < SmallToken \/ (YearFrom <= nums[i] /\ nums[i] <= YearTo))
    THEN SkipLeading(nums, i + 1) ELSE i

\* an assignment in which a token that fails its gate is offered to the next field
ShiftingIntervals(nums) ==
    With(SkipLeading(nums, 1), LAMBDA i :
        LET n == Len(nums)
            b == IF i <= n /\ nums[i] > SmallToken THEN i + 1 ELSE i
            s == IF b <= n /\ nums[b] > SmallToken THEN b + 1 ELSE b
            v == IF s <= n /\ nums[s] < MaxStages THEN s + 1 ELSE s
        IN  [top_ft |-> IF b > i THEN Some(nums[i]) ELSE None,
             bottom_ft |-> IF s > b THEN Some(nums[b]) ELSE None,
             stimulation_stages |-> IF v > s THEN Some(nums[s]) ELSE None,
             volume |-> IF v <= n THEN Some(nums[v]) ELSE None])

\* the four positional fields of the data line
Intervals(nums) ==
    With(SkipLeading(nums, 1), LAMBDA i :
        [top_ft |-> IF i <= Len(nums) /\ nums[i] > SmallToken
                    THEN Some(nums[i]) ELSE None,
         bottom_ft |-> IF i + 1 <= Len(nums) /\ nums[i + 1] > SmallToken
                       THEN Some(nums[i + 1]) ELSE None,
         stimulation_stages |-> IF i + 2 <= Len(nums) /\ nums[i + 2] < MaxStages
                                THEN Some(nums[i + 2]) ELSE None,
         volume |-> IF i + 3 <= Len(nums) THEN Some(nums[i + 3]) ELSE None])

\* the lines between 'Type Treatment' and 'Details' (or a proppant line)
RECURSIVE TreatLines(_, _, _)
TreatLines(lines, i, in_treat) ==
    IF i > Len(lines) THEN <<>>
    ELSE IF lines[i].kind = "typehdr" THEN TreatLines(lines, i + 1, TRUE)
    ELSE IF ~in_treat THEN TreatLines(lines, i + 1, FALSE)
    ELSE IF lines[i].kind \in {"details", "mesh"} THEN <<>>
    ELSE <<lines[i]>> \o TreatLines(lines, i + 1, TRUE)

\* the first element of a sequence of optionals that is a value
RECURSIVE FirstSome(_)
FirstSome(opts) ==
    IF opts = <<>> THEN None
    ELSE IF Head(opts) # None THEN Head(opts) ELSE FirstSome(Tail(opts))

AcidMax == 100

\* 0 < float(am.group(1)) <= 100
AcidOk(a) == a # None /\ 0 < The(a) /\ The(a) <= AcidMax

\* acid_pct over the treatment lines: the first capture that is in range
RECURSIVE TreatAcid(_)
TreatAcid(ls) ==
    IF ls = <<>> THEN None
    ELSE IF AcidOk(Head(ls).acid) THEN Head(ls).acid ELSE TreatAcid(Tail(ls))

\* acid_pct over the block: the first capture, kept when it is in range; the
\* unanchored third ordering is tried when the others find nothing
BlockAcid(lines) ==
    With(FirstSome([i \in 1..Len(lines) |-> lines[i].acid]), LAMBDA found :
      With(IF found # None THEN found
           ELSE FirstSome([i \in 1..Len(lines) |-> lines[i].acid_inline]), LAMBDA am :
        IF AcidOk(am) THEN am ELSE None))

RECURSIVE Flatten(_)
Flatten(ss) == IF ss = <<>> THEN <<>> ELSE Head(ss) \o Flatten(Tail(ss))

\* list.remove(v): the first occurrence
RECURSIVE RemoveFirst(_, _)
RemoveFirst(vals, v) ==
    IF vals = <<>> THEN <<>>
    ELSE IF Head(vals) = v THEN Tail(vals)
    ELSE <<Head(vals)>> \o RemoveFirst(Tail(vals), v)

ProppantMin == 100000
PressureMin == 1000
PressureMax == 20000
RateMax == 200

\* the first value of the sequence that satisfies the test
FirstWhere(vals, Test(_)) ==
    With({i \in 1..Len(vals) : Test(vals[i])}, LAMBDA hits :
        IF hits = {} THEN None ELSE Some(vals[Min(hits)]))

\* the magnitude buckets of the treatment values
TreatBuckets(treat_vals) ==
    LET isP(v) == PressureMin < v /\ v < PressureMax
        isR(v) == 0 < v /\ v < RateMax
    IN  With(FirstWhere(treat_vals, LAMBDA v : v > ProppantMin), LAMBDA lbs :
          With(SelectSeq(treat_vals, LAMBDA v : Some(v) # lbs), LAMBDA rest :
            [lbs_proppant |-> lbs,
             max_treatment_pressure_psi |-> FirstWhere(rest, isP),
             \* the elif: a pressure-sized value is never taken as the rate
             max_treatment_rate |-> FirstWhere(rest, LAMBDA v : isR(v) /\ ~isP(v))]))

HasDigit(l) == AllTokens(l) # <<>> \/ l.acid # None

\* the detail lines: the rest of the 'Details' line and the lines after it
RECURSIVE DetailLines(_, _, _)
DetailLines(lines, i, in_details) ==
    IF i > Len(lines) THEN <<>>
    ELSE IF lines[i].kind = "details"
    THEN (IF HasDigit(lines[i]) THEN <<AllTokens(lines[i])>> ELSE <<>>)
         \o DetailLines(lines, i + 1, TRUE)
    ELSE IF ~in_details THEN DetailLines(lines, i + 1, FALSE)
    ELSE IF lines[i].kind \in {"stop", "typehdr"} THEN <<>>
    ELSE IF lines[i].formHdr THEN DetailLines(lines, i + 1, TRUE)
    ELSE (IF HasDigit(lines[i]) THEN <<AllTokens(lines[i])>> ELSE <<>>)
         \o DetailLines(lines, i + 1, TRUE)

\* Python truthiness of an optional number / of an optional string
TruthyNum(x) == x # None /\ x # Some(0)
TruthyStr(x) == x # None /\ x # Some("")

\* a segmenter that keeps every block
KeepsEveryBlock(lbs_proppant, volume, formation) == TRUE

\* if not any([lbs_proppant, volume, formation]): continue
BlockAccepted(lbs_proppant, volume, formation) ==
    TruthyNum(lbs_proppant) \/ TruthyNum(volume) \/ TruthyStr(formation)

\* the treatment values: every token of the treatment lines, less the
\* acid percentage
TreatVals(treat_lines, acid_in_treat) ==
    With(Flatten([i \in 1..Len(treat_lines) |-> AllTokens(treat_lines[i])]), LAMBDA all_vals :
        IF acid_in_treat # None THEN RemoveFirst(all_vals, The(acid_in_treat)) ELSE all_vals)

\* the date of the data line, in ISO form when it can be normalized
StimDate(raw_date) ==
    IF raw_date = None THEN None
    ELSE With(normalize_date_to_iso(raw_date), LAMBDA iso :
            IF iso # None THEN iso ELSE raw_date)

\* the record of a block with data line d
BlockRecord(lines, d) ==
    With(StimFormation(lines[d]), LAMBDA formation :
      With(Intervals(StimNums(lines[d])), LAMBDA iv :
        With(TreatLines(lines, 1, FALSE), LAMBDA treat_lines :
          With(TreatAcid(treat_lines), LAMBDA acid_in_treat :
            With(TreatBuckets(TreatVals(treat_lines, acid_in_treat)), LAMBDA b :
              With(DetailLines(lines, 1, FALSE), LAMBDA detail_lines :
                IF ~BlockAccepted(b.lbs_proppant, iv.volume, formation) THEN None
                ELSE Some([date_stimulated |-> StimDate(lines[d].date),
                           stimulated_formation |-> formation,
                           top_ft |-> iv.top_ft,
                           bottom_ft |-> iv.bottom_ft,
                           stimulation_stages |-> iv.stimulation_stages,
                           volume |-> iv.volume,
                           volume_units |->
                               FirstSome([i \in 1..Len(lines) |-> lines[i].units]),
                           type_treatment |->
                               FirstSome([i \in 1..Len(treat_lines) |-> treat_lines[i].type]),
                           acid_pct |-> IF acid_in_treat # None THEN acid_in_treat
                                        ELSE BlockAcid(lines),
                           lbs_proppant |-> b.lbs_proppant,
                           max_treatment_pressure_psi |-> b.max_treatment_pressure_psi,
                           max_treatment_rate |-> b.max_treatment_rate,
                           details |-> IF detail_lines = <<>> THEN None
                                       ELSE Some(detail_lines)])))))))

\* one block: its record, or None when the block is dropped
ParseBlock(block) ==
    With(block, LAMBDA lines :
        IF Len(lines) < 2 THEN None
        ELSE IF ~\E i \in PySlice(lines, 0, FormHeaderWindow) : lines[i].formHdr THEN None
        ELSE With(DataLine(lines), LAMBDA d :
                IF d = 0 THEN None ELSE BlockRecord(lines, d)))

\* the records of the blocks, in order
RECURSIVE BlockRows(_)
BlockRows(blocks) ==
    IF blocks = <<>> THEN <<>>
    ELSE With(ParseBlock(Head(blocks)), LAMBDA r :
            (IF r = None THEN <<>> ELSE <<The(r)>>) \o BlockRows(Tail(blocks)))

\* a line that is numeric tokens and nothing else: [\d,\s]+ runs through it
OnlyNumbers(l) ==
    /\ l.kind = "line" /\ l.nums # <<>>
    /\ ~l.formHdr /\ ~l.words
    /\ l.date = None /\ l.formation = None /\ l.type = None
    /\ l.acid = None /\ l.acid_inline = None /\ l.units = None /\ l.lead = <<>>

RECURSIVE NumberRun(_, _)
NumberRun(text, i) ==
    IF i <= Len(text) /\ OnlyNumbers(text[i])
    THEN text[i].nums \o NumberRun(text, i + 1) ELSE <<>>

\* re.finditer of  (Sand\s*Frac|Acid\s*Frac|Frac|Acid)\s+([\d,\s]+)  over the
\* whole text: the keyword and the numbers of group 2, for each match
RECURSIVE SecondaryMatches(_, _)
SecondaryMatches(text, i) ==
    IF i > Len(text) THEN <<>>
    ELSE LET run == text[i].nums \o NumberRun(text, i + 1)
         IN  (IF text[i].type # None /\ run # <<>>
              THEN <<[type |-> text[i].type, nums |-> run]>> ELSE <<>>)
             \o SecondaryMatches(text, i + 1)

EmptyStimRow ==
    [date_stimulated |-> None, stimulated_formation |-> None, top_ft |-> None,
     bottom_ft |-> None, stimulation_stages |-> None, volume |-> None,
     volume_units |-> None, type_treatment |-> None, acid_pct |-> None,
     lbs_proppant |-> None, max_treatment_pressure_psi |-> None,
     max_treatment_rate |-> None, details |-> None]

\* the record of one match of the secondary pass (nums: the values > 100000)
SecondaryRow(type_treatment, nums) ==
    [EmptyStimRow EXCEPT
        !.type_treatment = type_treatment,
        !.lbs_proppant = Some(nums[1]),
        !.max_treatment_pressure_psi =
            IF Len(nums) > 1 /\ PressureMin < nums[2] /\ nums[2] < PressureMax
            THEN Some(nums[2]) ELSE None,
        !.max_treatment_rate =
            IF Len(nums) > 2 /\ 0 < nums[3] /\ nums[3] < RateMax
            THEN Some(nums[3]) ELSE None]

\* a secondary pass that adds a record for every match
AddsEveryMatch(lbs, existing_lbs) == TRUE

\* whether the secondary pass adds a record for the mass
SecondaryAdds(lbs, existing_lbs) == lbs \notin existing_lbs

\* fallback when data line appears before header (table layout)
RECURSIVE SecondaryPass(_, _, _)
SecondaryPass(matches, existing_lbs, rows) ==
    IF matches = <<>> THEN rows
    ELSE With(SelectSeq(Head(matches).nums, LAMBDA v : v > ProppantMin), LAMBDA nums :
            IF nums # <<>> /\ SecondaryAdds(nums[1], existing_lbs)
            THEN With(existing_lbs \cup {nums[1]}, LAMBDA seen :
                   With(Append(rows, SecondaryRow(Head(matches).type, nums)), LAMBDA more :
                      SecondaryPass(Tail(matches), seen, more)))
            ELSE SecondaryPass(Tail(matches), existing_lbs, rows))

extract_stimulations(text) ==
    With(BlockRows(StimBlocks(text)), LAMBDA rows :
      With({The(rows[i].lbs_proppant) :
                i \in {n \in 1..Len(rows) : TruthyNum(rows[n].lbs_proppant)}},
           LAMBDA existing_lbs :
              With(SecondaryMatches(text, 1), LAMBDA matches :
                  SecondaryPass(matches, existing_lbs, rows))))

(***************************************************************************)
(* extract_from_tables.  A table is a sequence of rows, a row a sequence   *)
(* of optional cells; the first cell of a row is a label (a string), the   *)
(* others are values (sequences of characters).                            *)
(***************************************************************************)

\* table header label -> well dict key, in the order of the dict
TABLE_LABELS ==
    <<<<"api", "api_number">>, <<"api number", "api_number">>,
      <<"api #", "api_number">>, <<"well name", "well_name">>,
      <<"latitude", "latitude_raw">>, <<"lat", "latitude_raw">>,
      <<"longitude", "longitude_raw">>, <<"long", "longitude_raw">>,
      <<"address", "address">>, <<"field address", "address">>,
      <<"county", "county">>, <<"field", "field">>, <<"field/pool", "field">>,
      <<"operator", "operator">>, <<"permit number", "permit_number">>,
      <<"permit #", "permit_number">>, <<"permit date", "permit_date">>,
      <<"total depth", "total_depth">>, <<"depth", "total_depth">>,
      <<"formation", "formation">>>>

\* re.sub(r'\s+', ' ', str(row[0])).strip().lower() on the label cells of the model
NormLabel(cell) ==
    CASE cell = "API" -> "api"
      [] cell = "API #" -> "api #"
      [] cell = "API Number" -> "api number"
      [] cell = "API No." -> "api no."
      [] cell = "Latitude" -> "latitude"
      [] cell = "Longitude" -> "longitude"
      [] cell = "Operator" -> "operator"
      [] cell = "Well Name" -> "well name"
      [] cell = "County" -> "county"
      [] cell = "Depth" -> "depth"
      [] cell = "Address" -> "address"
      [] cell = "Well" -> "well"
      [] cell = "Remarks" -> "remarks"
      [] OTHER -> cell

\* a in b, for the labels of the model and of the dict
ProperSubstrings ==
    {<<"api", "api #">>, <<"api", "api no.">>, <<"api", "api number">>,
     <<"lat", "latitude">>, <<"long", "longitude">>, <<"depth", "total depth">>,
     <<"field", "field address">>, <<"field", "field/pool">>,
     <<"address", "field address">>, <<"well", "well name">>}

IsIn(a, b) == a = b \/ <<a, b>> \in ProperSubstrings

\* the key of the first entry with  tbl_label in label or label in tbl_label
TableKey(label) ==
    LET hits == {i \in 1..Len(TABLE_LABELS) :
                    IsIn(TABLE_LABELS[i][1], label) \/ IsIn(label, TABLE_LABELS[i][1])}
    IN  IF hits = {} THEN None ELSE Some(TABLE_LABELS[Min(hits)][2])

KvKeys == {TABLE_LABELS[i][2] : i \in 1..Len(TABLE_LABELS)}

EmptyKv == [k \in KvKeys |-> None]

TruthySeq(x) == x # None /\ The(x) # <<>>

\* a row of a two-column table that passes  len(row) >= 2 and row[0] and row[1]
\* and whose value is not blank
KvRowKept(row) ==
    /\ Len(row) >= 2
    /\ TruthyStr(row[1]) /\ TruthySeq(row[2])
    /\ Strip(The(row[2])) # <<>>

\* whether the table is read as a key/value block
IsKeyValueTable(table) == Len(table[1]) = 2

\* whether the row of a key/value block is also appended to the text lines
KvRowIsText(row) == KvRowKept(row)

\* the cells of  (str(c or '').strip() for c in row if c)
RECURSIVE CellsKept(_)
CellsKept(cells) ==
    IF cells = <<>> THEN <<>>
    ELSE (IF TruthySeq(Head(cells)) THEN <<Strip(The(Head(cells)))>> ELSE <<>>)
         \o CellsKept(Tail(cells))

\* ' '.join(parts)
RECURSIVE JoinSp(_)
JoinSp(parts) ==
    IF parts = <<>> THEN <<>>
    ELSE IF Len(parts) = 1 THEN Head(parts)
    ELSE Head(parts) \o <<" ">> \o JoinSp(Tail(parts))

\* the text line of a row of a table that is not a key/value block: its
\* first cell is the label of the line, the joined other cells its value
GenericRowLine(row) ==
    [label |-> IF row # <<>> /\ TruthyStr(row[1]) THEN The(row[1]) ELSE "",
     val |-> IF row = <<>> THEN <<>> ELSE JoinSp(CellsKept(Tail(row)))]

RECURSIVE TableTextLines(_)
TableTextLines(rows) ==
    IF rows = <<>> THEN <<>> ELSE <<GenericRowLine(Head(rows))>> \o TableTextLines(Tail(rows))

RECURSIVE KvTextLines(_)
KvTextLines(rows) ==
    IF rows = <<>> THEN <<>>
    ELSE (IF KvRowIsText(Head(rows))
          THEN <<[label |-> The(Head(rows)[1]), val |-> Strip(The(Head(rows)[2]))]>>
          ELSE <<>>) \o KvTextLines(Tail(rows))

\* kv.setdefault(well_key, val) for each kept row
RECURSIVE KvOfRows(_, _)
KvOfRows(rows, kv) ==
    IF rows = <<>> THEN kv
    ELSE LET row == Head(rows)
             key == TableKey(NormLabel(The(row[1])))
         IN  IF KvRowKept(row) /\ key # None /\ kv[The(key)] = None
             THEN With([kv EXCEPT ![The(key)] = Some(Strip(The(row[2])))],
                       LAMBDA kv1 : KvOfRows(Tail(rows), kv1))
             ELSE KvOfRows(Tail(rows), kv)

MinTableRows == 2

\* the earlier entry wins (setdefault)
MergedKv(first, later) == [key \in KvKeys |-> IF first[key] # None THEN first[key] ELSE later[key]]

RECURSIVE extract_from_tables(_)
extract_from_tables(tables) ==
    IF tables = <<>> THEN [text_lines |-> <<>>, kv |-> EmptyKv]
    ELSE With(extract_from_tables(Tail(tables)), LAMBDA rest :
            LET table == Head(tables)
            IN  IF Len(table) < MinTableRows THEN rest
                ELSE IF IsKeyValueTable(table)
                THEN [text_lines |-> KvTextLines(table) \o rest.text_lines,
                      kv |-> With(KvOfRows(table, EmptyKv),
                                  LAMBDA kv : MergedKv(kv, rest.kv))]
                ELSE [text_lines |-> TableTextLines(table) \o rest.text_lines,
                      kv |-> rest.kv])

(***************************************************************************)
(* String repairs applied to names and addresses.                          *)
(***************************************************************************)
\* str.replace(typo, fix)
RECURSIVE Replace(_, _, _)
Replace(s, typo, fix) ==
    IF Len(s) < Len(typo) \/ typo = <<>> THEN s
    ELSE IF SubSeq(s, 1, Len(typo)) = typo
    THEN fix \o Replace(SubSeq(s, Len(typo) + 1, Len(s)), typo, fix)
    ELSE <<Head(s)>> \o Replace(Tail(s), typo, fix)

WELL_NAME_OCR_FIXES ==
    <<<<<<"F", "e", "d", "e", "r", "a", "1">>, <<"F", "e", "d", "e", "r", "a", "l">>>>,
      <<<<"C", "c", " ", "l", "u", "m", "b", "u", "s">>, <<"C", "o", "l", "u", "m", "b", "u", "s">>>>,
      <<<<"C", "h", "a", "l", "m", "e", "s">>, <<"C", "h", "a", "l", "m", "e", "r", "s">>>>,
      <<<<"l", "n", "n", "o", "k", "o">>, <<"I", "n", "n", "o", "k", "o">>>>,
      <<<<"G", "r", "a", "m", "m", "a">>, <<"G", "a", "m", "m", "a">>>>>>

ADDRESS_OCR_FIXES ==
    <<<<<<"B", "r", "o", "a", "d", "w", "a">>, <<"B", "r", "o", "a", "d", "w", "a", "y">>>>,
      <<<<"B", "r", "o", "a", "d", "w", "a", "y", "y">>, <<"B", "r", "o", "a", "d", "w", "a", "y">>>>,
      <<<<"P", " ", ".", "0", ".">>, <<"P", ".", "O", ".">>>>,
      <<<<"P", ".", " ", "0", ".">>, <<"P", ".", "O", ".">>>>,
      <<<<"C", "i", "t">>, <<"C", "i", "t", "y">>>>,
      <<<<"C", "i", "t", "y", "y">>, <<"C", "i", "t", "y">>>>,
      <<<<"I", "N", " ", "9", "t", "h">>, <<"W", " ", "9", "t", "h">>>>>>

RECURSIVE _apply_ocr_fixes(_, _)
_apply_ocr_fixes(val, fixes) ==
    IF fixes = <<>> \/ val = <<>> THEN val
    ELSE _apply_ocr_fixes(Replace(val, Head(fixes)[1], Head(fixes)[2]), Tail(fixes))

\* re.sub(r'\s*,\s*', ', ', addr)
RECURSIVE CommaSpacing(_, _)
CommaSpacing(s, i) ==
    IF i > Len(s) THEN <<>>
    ELSE LET a == SkipWs(s, i)
         IN  IF a <= Len(s) /\ s[a] = ","
             THEN <<",", " ">> \o CommaSpacing(s, SkipWs(s, a + 1))
             ELSE <<s[i]>> \o CommaSpacing(s, i + 1)

\* re.sub(r'\s+', ' ', s)
RECURSIVE CollapseWs(_, _)
CollapseWs(s, i) ==
    IF i > Len(s) THEN <<>>
    ELSE IF s[i] = " " THEN <<" ">> \o CollapseWs(s, SkipWs(s, i))
    ELSE <<s[i]>> \o CollapseWs(s, i + 1)

\* the strip, the comma spacing and the final whitespace collapse of the
\* function; its word-boundary repairs (P.O., Suite/Box, case boundaries)
\* act on shapes the model's values do not have
_normalize_address_spacing(addr) ==
    IF addr = <<>> THEN addr
    ELSE Strip(CollapseWs(CommaSpacing(Strip(addr), 1), 1))

(***************************************************************************)
(* extract_from_pdf.  A file name is [prefix, number, suffix]; a document  *)
(* is what pdfplumber gives for it:                                        *)
(*   opens   whether pdfplumber.open and the page reads succeed,           *)
(*   pages   per page its text lines and its tables,                       *)
(*   stim    the stimulation part of the page text,                        *)
(*   casc    the results, on the document's text, of the field cascades    *)
(*           that are not taken apart here.                                *)
(* No OCR fallback: USE_OCR_FALLBACK is unset in the default               *)
(* configuration.                                                          *)
(***************************************************************************)
\* re.match(r'W(\d+)\.pdf', filename, re.IGNORECASE)
extract_well_file_from_filename(filename) ==
    IF /\ filename.prefix \in {"W", "w"}
       /\ filename.number # <<>>
       /\ \A i \in 1..Len(filename.number) : filename.number[i] \in Digit
       /\ filename.suffix \in {".pdf", ".PDF"}
    THEN Some(filename.number) ELSE None

\* the text fields that the table values can fill, in the order of the loop
BackfillKeys ==
    <<"api_number", "well_name", "address", "county", "field", "operator",
      "permit_number", "permit_date", "total_depth", "formation">>

CascadeKeys ==
    {"well_file_no", "well_name", "latitude", "longitude", "address", "county",
     "field", "operator", "permit_number", "permit_date", "total_depth", "formation"}

NoCascade == [k \in CascadeKeys |-> None]

\* the result dict before anything is read
EmptyResult(filename) ==
    [api_number |-> None,
     well_file_no |-> extract_well_file_from_filename(filename),
     well_name |-> None, latitude |-> None, longitude |-> None,
     address |-> None, county |-> None, field |-> None, operator |-> None,
     permit_number |-> None, permit_date |-> None, total_depth |-> None,
     formation |-> None, stimulation_notes |-> None,
     stimulation_rows |-> <<>>, raw_extract |-> None,
     pdf_source |-> filename]

RECURSIVE PageTextLines(_)
PageTextLines(pages) ==
    IF pages = <<>> THEN <<>> ELSE Head(pages).text \o PageTextLines(Tail(pages))

RECURSIVE AllTableLines(_)
AllTableLines(pages) ==
    IF pages = <<>> THEN <<>>
    ELSE extract_from_tables(Head(pages).tables).text_lines \o AllTableLines(Tail(pages))

\* all_kv.setdefault(k, v) page after page
RECURSIVE AllKv(_)
AllKv(pages) ==
    IF pages = <<>> THEN EmptyKv
    ELSE With(extract_from_tables(Head(pages).tables).kv, LAMBDA kv :
            With(AllKv(Tail(pages)), LAMBDA rest : MergedKv(kv, rest)))

FullText(doc) ==
    [lines |-> PageTextLines(doc.pages) \o AllTableLines(doc.pages),
     stim |-> doc.stim]

LineBlank(l) == l.label = "" /\ Strip(l.val) = <<>>

\* not full_text.strip()
TextIsBlank(full_text) ==
    /\ \A i \in 1..Len(full_text.lines) : LineBlank(full_text.lines[i])
    /\ \A i \in 1..Len(full_text.stim) :
            full_text.stim[i].kind = "line" /\ StimBlank(full_text.stim[i])

\* the bits of one stimulation record in the notes
NoteBits(sr) ==
    [formation |-> IF TruthyStr(sr.stimulated_formation)
                   THEN sr.stimulated_formation ELSE None,
     lbs |-> IF TruthyNum(sr.lbs_proppant) THEN sr.lbs_proppant ELSE None,
     type |-> IF TruthyStr(sr.type_treatment) THEN sr.type_treatment ELSE None]

\* '; '.join(parts) if parts else None, as the sequence of the parts
StimulationNotes(rows) ==
    LET bits == [i \in 1..Len(rows) |-> NoteBits(rows[i])]
        parts == SelectSeq(bits, LAMBDA b : b.formation # None \/ b.lbs # None \/ b.type # None)
    IN  IF parts = <<>> THEN None ELSE Some(parts)

\* the result after the field cascades and the stimulation notes
Cascades(filename, doc) ==
    With(FullText(doc), LAMBDA full_text :
      With(extract_stimulations(full_text.stim), LAMBDA rows :
        LET well_file == extract_well_file_from_filename(filename)
        IN  [EmptyResult(filename) EXCEPT
                !.raw_extract = Some(full_text),
                !.api_number = extract_api(full_text.lines),
                !.well_file_no = IF TruthySeq(well_file) THEN well_file
                                 ELSE doc.casc.well_file_no,
                !.well_name = IF doc.casc.well_name = None THEN None
                              ELSE Some(_apply_ocr_fixes(The(doc.casc.well_name),
                                                         WELL_NAME_OCR_FIXES)),
                !.latitude = doc.casc.latitude,
                !.longitude = doc.casc.longitude,
                !.address = doc.casc.address,
                !.county = doc.casc.county,
                !.field = doc.casc.field,
                !.operator = doc.casc.operator,
                !.permit_number = doc.casc.permit_number,
                !.permit_date = doc.casc.permit_date,
                !.total_depth = doc.casc.total_depth,
                !.formation = doc.casc.formation,
                !.stimulation_rows = rows,
                !.stimulation_notes = IF rows = <<>> THEN None ELSE StimulationNotes(rows)]))

\* the value the backfill writes for a key
BackfillValue(key, raw) ==
    LET val == Strip(raw)
    IN  IF key = "well_name" THEN _apply_ocr_fixes(val, WELL_NAME_OCR_FIXES)
        ELSE IF key = "address"
        THEN _normalize_address_spacing(_apply_ocr_fixes(val, ADDRESS_OCR_FIXES))
        ELSE val

\* a backfill that takes the table value whatever the cascade found
TableValueWins(kv_val, current) == TruthySeq(kv_val)

\* if all_kv.get(key) and not result[key]
BackfillApplies(kv_val, current) == TruthySeq(kv_val) /\ ~TruthySeq(current)

RECURSIVE Backfill(_, _, _)
Backfill(result, all_kv, keys) ==
    IF keys = <<>> THEN result
    ELSE LET key == Head(keys)
         IN  IF BackfillApplies(all_kv[key], result[key])
             THEN With([result EXCEPT ![key] = Some(BackfillValue(key, The(all_kv[key])))],
                       LAMBDA filled : Backfill(filled, all_kv, Tail(keys)))
             ELSE Backfill(result, all_kv, Tail(keys))

Micro == 1000000
LatLimit == 90
LonLimit == 180
DegreeSign == "*"

\* if all_kv.get('latitude_raw') and result['latitude'] is None
CoordFallbackApplies(kv_val, current) == TruthySeq(kv_val) /\ current = None

\* the table value of a coordinate as a number, hemisphere letter `dflt`
\* appended when the value has neither of `letters`
TableCoordinate(raw, letters, dflt) ==
    IF HasChar(raw, {DegreeSign})
    THEN dms_to_decimal(IF HasChar(raw, letters) THEN raw ELSE raw \o <<" ", dflt>>)
    ELSE ParseFloat(raw)

LatitudeFallback(result, all_kv) ==
    IF ~CoordFallbackApplies(all_kv["latitude_raw"], result.latitude) THEN result
    ELSE LET lat == TableCoordinate(Strip(The(all_kv["latitude_raw"])),
                                    {"N", "n", "S", "s"}, "N")
         IN  IF lat # None /\ -LatLimit * Micro <= The(lat) /\ The(lat) <= LatLimit * Micro
             THEN [result EXCEPT !.latitude = lat] ELSE result

LongitudeFallback(result, all_kv) ==
    IF ~CoordFallbackApplies(all_kv["longitude_raw"], result.longitude) THEN result
    ELSE LET raw == Strip(The(all_kv["longitude_raw"]))
             parsed == TableCoordinate(raw, {"W", "w", "E", "e"}, "W")
             lon == IF ~HasChar(raw, {DegreeSign}) /\ parsed # None /\ The(parsed) > 0
                    THEN Some(-The(parsed)) ELSE parsed
         IN  IF lon # None /\ -LonLimit * Micro <= The(lon) /\ The(lon) <= LonLimit * Micro
             THEN [result EXCEPT !.longitude = lon] ELSE result

\* a reader that goes on where extract_from_pdf gives up
ReadsRegardless(filename, doc) ==
    With(AllKv(doc.pages), LAMBDA all_kv :
        With(Backfill(Cascades(filename, doc), all_kv, BackfillKeys), LAMBDA filled :
            LongitudeFallback(LatitudeFallback(filled, all_kv), all_kv)))

extract_from_pdf(filename, doc) ==
    IF ~doc.opens THEN EmptyResult(filename)
    ELSE IF With(FullText(doc), LAMBDA full_text : TextIsBlank(full_text))
    THEN EmptyResult(filename)
    ELSE With(AllKv(doc.pages), LAMBDA all_kv :
            With(Cascades(filename, doc), LAMBDA found :
                With(Backfill(found, all_kv, BackfillKeys), LAMBDA filled :
                    With(LatitudeFallback(filled, all_kv),
                         LAMBDA result : LongitudeFallback(result, all_kv)))))

(***************************************************************************)
(* State.  The specifications share the module's variables:                *)
(*   SpecStim  extract_stimulations applied to generated stimulation text, *)
(*   SpecPdf   extract_from_pdf applied to generated documents,            *)
(*   Spec      main: the batch over the files of the directory and the     *)
(*             SQLite store,                                                *)
(*   SpecCoord, SpecApi, SpecDate, SpecDms, SpecOcr, SpecBlock, SpecTables *)
(*             one function each, applied to generated arguments.          *)
(***************************************************************************)
VARIABLES
    stimIn,      \* the text given to extract_stimulations
    stimOut,     \* its return value, None before the call
    pdfName,     \* the file name given to extract_from_pdf
    pdfDoc,      \* what pdfplumber gives for the file
    pdfResult,   \* the dict returned by extract_from_pdf, None before the call
    db,          \* the committed content of the database file
    conn,        \* the content as the open connection sees it
    before,      \* the committed content when the batch started
    pc,          \* where main is
    run,         \* how many batches have been started
    disk,        \* file name -> document, for the files of the directory
    pdf_files,   \* the list main works through
    k,           \* position in pdf_files
    data,        \* the dict of the document in flight
    well_id,     \* the id selected for it
    j,           \* position in its stimulation rows
    inserted,    \* main's counter
    failed,      \* the documents whose write raised in this batch
    extracted,   \* file name -> the dict main wrote for it in this batch
    call,        \* the arguments of a function that is called on its own
    ret          \* its return value, None before the call

stimVars == <<stimIn, stimOut>>
pdfVars == <<pdfName, pdfDoc, pdfResult>>
callVars == <<call, ret>>
batchVars == <<db, conn, before, pc, run, disk, pdf_files, k, data, well_id, j,
               inserted, failed, extracted>>
vars == <<stimIn, stimOut, pdfName, pdfDoc, pdfResult, db, conn, before, pc, run,
          disk, pdf_files, k, data, well_id, j, inserted, failed, extracted, call, ret>>

(***************************************************************************)
(* SpecStim                                                                *)
(***************************************************************************)
MaxStimLines == 5

StimLine(kind, formHdr, date, formation, type, nums, acid, words) ==
    [kind |-> kind, formHdr |-> formHdr, date |-> date, lead |-> <<>>,
     formation |-> formation, type |-> type, nums |-> nums, acid |-> acid,
     acid_inline |-> None, units |-> None, words |-> words]

\* 'WELL COMPLETION REPORT'
PreambleLine == StimLine("line", FALSE, None, None, None, <<>>, None, TRUE)
\* 'Date Stimulated  Stimulated Formation  Top (Ft) ...'
HeaderLine == StimLine("boundary", TRUE, None, None, None, <<>>, None, TRUE)
\* '6/1/2019 Bakken 9500 9800 12 450000'
FullDataLine ==
    StimLine("line", FALSE, Some([n |-> <<6, 1, 2019>>, sep |-> "/"]), Some("Bakken"),
             None, <<9500, 9800, 12, 450000>>, None, FALSE)
\* '6/1/1985 50 20'
BareDataLine ==
    StimLine("line", FALSE, Some([n |-> <<6, 1, 1985>>, sep |-> "/"]), None,
             None, <<50, 20>>, None, FALSE)
\* 'Type Treatment  Acid %  Lbs Proppant ...'
TypeHeaderLine == StimLine("typehdr", FALSE, None, None, None, <<>>, None, TRUE)
\* 'Sand Frac 250000 9000 40'
SandFracLine ==
    StimLine("line", FALSE, None, None, Some("Sand Frac"), <<250000, 9000, 40>>, None, FALSE)
\* 'Acid 15% 5000'
AcidLine ==
    StimLine("line", FALSE, None, None, Some("Acid"), <<15, 5000>>, Some(15), FALSE)

StimLines ==
    {PreambleLine, HeaderLine, FullDataLine, BareDataLine, TypeHeaderLine,
     SandFracLine, AcidLine}

StimTexts == UNION {[1..n -> StimLines] : n \in 0..MaxStimLines}

BatchIdle ==
    /\ db = [wells |-> {}, stim |-> {}, seqW |-> 0, seqS |-> 0]
    /\ extracted = <<>>
    /\ conn = db /\ before = db
    /\ pc = "idle" /\ run = 0
    /\ disk = <<>> /\ pdf_files = <<>>
    /\ k = 0 /\ data = None /\ well_id = None /\ j = 0
    /\ inserted = 0 /\ failed = {}

PdfIdle == pdfName = None /\ pdfDoc = None /\ pdfResult = None

StimIdle == stimIn = <<>> /\ stimOut = None

CallIdle == call = None /\ ret = None

InitStim ==
    /\ stimIn \in StimTexts
    /\ stimOut = None
    /\ PdfIdle /\ BatchIdle /\ CallIdle

\* rows = extract_stimulations(full_text)
ExtractStimulations ==
    /\ stimOut = None
    /\ stimOut' = Some(extract_stimulations(stimIn))
    /\ UNCHANGED <<stimIn, pdfVars, batchVars, callVars>>

NextStim == ExtractStimulations

SpecStim == InitStim /\ [][NextStim]_vars

RecordCarriesKey(r) ==
    TruthyNum(r.lbs_proppant) \/ TruthyNum(r.volume) \/ TruthyStr(r.stimulated_formation)

\* a block with a formation header and a data line
WellFormedBlock(b) ==
    /\ Len(b) >= 2
    /\ \E i \in PySlice(b, 0, FormHeaderWindow) : b[i].formHdr
    /\ DataLine(b) # 0

\* C2: every record returned by extract_stimulations, from a block or from
\* the secondary pass, carries a proppant mass, a volume or a formation; a
\* block with none of the three leaves no record (the records of the blocks
\* carry the blocks' values, so such a record would be one without a key).
C2_RecordsCarryKey ==
    stimOut # None =>
        \A i \in 1..Len(The(stimOut)) : RecordCarriesKey(The(stimOut)[i])

\* a well-formed block was dropped and the secondary pass added a record
C2_Witness ==
    /\ stimOut # None
    /\ \E n \in 1..Len(StimBlocks(stimIn)) :
            WellFormedBlock(StimBlocks(stimIn)[n]) /\ ParseBlock(StimBlocks(stimIn)[n]) = None
    /\ \E i \in 1..Len(The(stimOut)) :
            /\ The(stimOut)[i].date_stimulated = None
            /\ The(stimOut)[i].stimulated_formation = None
            /\ TruthyNum(The(stimOut)[i].lbs_proppant)

(***************************************************************************)
(* SpecPdf                                                                 *)
(***************************************************************************)
MaxPages == 2

\* nothing on the page
EmptyPage ==
    [text |-> <<>>,
     tables |-> <<>>]

\* an identifier in the text, and a table that names other values
ApiTextPage ==
    [text |-> <<[label |-> "API #", val |-> <<"3", "3", "-", "0", "5", "3", "-", "0", "6", "7", "5", "5">>]>>,
     tables |-> <<<<<<Some("API"), Some(<<"p", "e", "n", "d", "i", "n", "g">>)>>,
            <<Some("Latitude"), Some(<<"4", "7", ".", "5">>)>>,
            <<Some("Longitude"), Some(<<"1", "0", "2", ".", "5">>)>>>>>>]

\* the identifier only in a two-column table, as a run of ten digits
RawApiPage ==
    [text |-> <<[label |-> "Remarks", val |-> <<"s", "e", "e", " ", "f", "i", "l", "e">>]>>,
     tables |-> <<<<<<Some("API Number"), Some(<<"3", "3", "0", "5", "3", "0", "6", "7", "5", "5">>)>>,
            <<Some("County"), Some(<<" ", "M", "c", "K", "e", "n", "z", "i", "e", " ">>)>>>>>>]

\* white space, and a table with no content
BlankPage ==
    [text |-> <<[label |-> "", val |-> <<" ">>]>>,
     tables |-> <<<<<<None, None, Some(<<" ">>)>>,
            <<None, Some(<<>>), None>>>>>>]

\* coordinates in degrees, minutes and seconds, a name and an address in a table
DmsPage ==
    [text |-> <<>>,
     tables |-> <<<<<<Some("API"), Some(<<"3", "3", " ", "0", "5", "3", " ", "0", "1", "2", "3", "4">>)>>,
            <<Some("Latitude"), Some(<<"4", "7", "*", "3", "0", "'", "1", "5", "\"">>)>>,
            <<Some("Longitude"), Some(<<"1", "0", "2", "*", "3", "0", "'", "0", "\"">>)>>,
            <<Some("Well Name"), Some(<<"F", "e", "d", "e", "r", "a", "1", " ", "1", "-", "2">>)>>,
            <<Some("Address"), Some(<<"1", " ", "M", "a", "i", "n", " ", ",", "C", "i", "t">>)>>>>>>]

\* coordinate cells that are out of range or not numbers
BadCoordPage ==
    [text |-> <<[label |-> "Remarks", val |-> <<"s", "e", "e", " ", "f", "i", "l", "e">>]>>,
     tables |-> <<<<<<Some("Latitude"), Some(<<"9", "5", ".", "0">>)>>,
            <<Some("Longitude"), Some(<<"a", "b", "c">>)>>,
            <<Some("Operator"), Some(<<"A", "c", "m", "e">>)>>>>>>]

\* a table of three columns
WidePage ==
    [text |-> <<>>,
     tables |-> <<<<<<Some("Well"), Some(<<"A">>), Some(<<"B">>)>>,
            <<Some("API"), Some(<<"3", "3", "0", "5", "3", "0", "6", "7", "5", "5">>), None>>>>>>]

PdfPages == {EmptyPage, ApiTextPage, RawApiPage, BlankPage, DmsPage, BadCoordPage, WidePage}

\* W101.pdf, scan.pdf
PdfNames ==
    {[prefix |-> "W", number |-> <<"1", "0", "1">>, suffix |-> ".pdf"],
     [prefix |-> "scan", number |-> <<>>, suffix |-> ".pdf"]}

\* the cascades find a name, a latitude, a county and an address
NameCascade ==
    [NoCascade EXCEPT
        !["well_name"] = Some(<<"G", "r", "a", "m", "m", "a", " ", "3">>),
        !["latitude"] = Some(48 * Micro),
        !["county"] = Some(<<"D", "u", "n", "n">>),
        !["address"] = Some(<<"2", " ", "O", "a", "k">>)]

\* the cascades find the other fields
OtherCascade ==
    [NoCascade EXCEPT
        !["well_file_no"] = Some(<<"1", "2", "3", "4", "5">>),
        !["longitude"] = Some(-103 * Micro),
        !["field"] = Some(<<"B", "A", "K", "E", "R">>),
        !["operator"] = Some(<<"O", "a", "s", "i", "s">>),
        !["permit_number"] = Some(<<"7", "7">>),
        !["permit_date"] = Some(<<"2", "0", "1", "9", "-", "0", "6", "-", "0", "1">>),
        !["total_depth"] = Some(<<"2", "0", ",", "0", "0", "0", " ", "f", "t">>),
        !["formation"] = Some(<<"B", "a", "k", "k", "e", "n">>)]

PdfCascades == {NoCascade, NameCascade, OtherCascade}

\* a stimulation section with one block
OneBlockText == <<PreambleLine, HeaderLine, FullDataLine, TypeHeaderLine, SandFracLine>>

PdfStimTexts == {<<>>, OneBlockText}

\* the documents: the cascades find something only in a text that is not blank
PdfDocs ==
    {d \in [opens : BOOLEAN,
            pages : UNION {[1..n -> PdfPages] : n \in 0..MaxPages},
            stim : PdfStimTexts,
            casc : PdfCascades] :
        d.casc # NoCascade => ~TextIsBlank(FullText(d))}

InitPdf ==
    /\ pdfName \in PdfNames
    /\ pdfDoc \in {Some(d) : d \in PdfDocs}
    /\ pdfResult = None
    /\ StimIdle /\ BatchIdle /\ CallIdle

\* data = extract_from_pdf(str(pdf_path))
ExtractFromPdf ==
    /\ pdfResult = None
    /\ pdfResult' = Some(extract_from_pdf(pdfName, The(pdfDoc)))
    /\ UNCHANGED <<pdfName, pdfDoc, stimVars, batchVars, callVars>>

NextPdf == ExtractFromPdf

SpecPdf == InitPdf /\ [][NextPdf]_vars

\* the document was read: it opened and its text is not blank
WasRead(doc) == doc.opens /\ ~TextIsBlank(FullText(doc))

\* the value the cascade left in a text field counts as a result
CascadeKept(c, r) ==
    /\ \A n \in 1..Len(BackfillKeys) :
            TruthySeq(c[BackfillKeys[n]]) => r[BackfillKeys[n]] = c[BackfillKeys[n]]
    /\ c.latitude # None => r.latitude = c.latitude
    /\ c.longitude # None => r.longitude = c.longitude

\* C9: a table value is written into a well field only where the text
\* cascade left the field empty: for each of the ten backfilled text fields
\* and for latitude and longitude, the record extract_from_pdf returns holds
\* the cascade's value wherever the cascade found one.
C9_TableNeverOverridesCascade ==
    (pdfResult # None /\ WasRead(The(pdfDoc))) =>
        CascadeKept(Cascades(pdfName, The(pdfDoc)), The(pdfResult))

\* the cascade found an identifier and a latitude, the tables name other
\* values for both, and the longitude came from the table
C9_Witness ==
    /\ pdfResult # None /\ WasRead(The(pdfDoc))
    /\ LET c == Cascades(pdfName, The(pdfDoc))
           kv == AllKv(The(pdfDoc).pages)
       IN  /\ TruthySeq(c.api_number) /\ TruthySeq(kv["api_number"])
           /\ Strip(The(kv["api_number"])) # The(c.api_number)
           /\ The(pdfResult).api_number = c.api_number
           /\ c.latitude # None /\ TruthySeq(kv["latitude_raw"])
           /\ The(pdfResult).latitude = c.latitude
           /\ c.longitude = None /\ The(pdfResult).longitude # None

\* two digits, dash, three digits, dash, five digits
IsApiForm(a) ==
    /\ Len(a) = 12
    /\ a[3] = "-" /\ a[7] = "-"
    /\ \A i \in (1..12) \ {3, 7} : a[i] \in Digit

\* C10: a well record of extract_from_pdf with a non-null api_number, from
\* the identifier cascade or from a key/value table, has it in the form
\* dd-ddd-ddddd.
C10_ApiHasForm ==
    (pdfResult # None /\ The(pdfResult).api_number # None) =>
        IsApiForm(The(The(pdfResult).api_number))

(***************************************************************************)
(* main: what it does to the dict of a document before it is written.      *)
(***************************************************************************)
UpperLetters ==
    <<"A", "B", "C", "D", "E", "F", "G", "H", "I", "J", "K", "L", "M">> \o
    <<"N", "O", "P", "Q", "R", "S", "T", "U", "V", "W", "X", "Y", "Z">>

LowerLetters ==
    <<"a", "b", "c", "d", "e", "f", "g", "h", "i", "j", "k", "l", "m">> \o
    <<"n", "o", "p", "q", "r", "s", "t", "u", "v", "w", "x", "y", "z">>

LetterIndex(c, letters) == {i \in 1..Len(letters) : letters[i] = c}

IsAlpha(c) == LetterIndex(c, UpperLetters) # {} \/ LetterIndex(c, LowerLetters) # {}

Lower(c) ==
    IF LetterIndex(c, UpperLetters) = {} THEN c
    ELSE LowerLetters[Min(LetterIndex(c, UpperLetters))]

Upper(c) ==
    IF LetterIndex(c, LowerLetters) = {} THEN c
    ELSE UpperLetters[Min(LetterIndex(c, LowerLetters))]

\* str.lower()
LowerStr(s) == [i \in 1..Len(s) |-> Lower(s[i])]

\* str.title()
Title(s) ==
    [i \in 1..Len(s) |-> IF i = 1 \/ ~IsAlpha(s[i - 1]) THEN Upper(s[i]) ELSE Lower(s[i])]

\* str.split()
RECURSIVE Words(_, _)
Words(s, cur) ==
    IF s = <<>> THEN (IF cur = <<>> THEN <<>> ELSE <<cur>>)
    ELSE IF Head(s) = " "
    THEN (IF cur = <<>> THEN <<>> ELSE <<cur>>) \o Words(Tail(s), <<>>)
    ELSE Words(Tail(s), Append(cur, Head(s)))

MinPoolWord == 3

\* the words of a line that  ^[A-Za-z]{3,}$  accepts, lower-cased
PoolWordsOf(val) ==
    LET ws == Words(val, <<>>)
    IN  {LowerStr(ws[x]) :
            x \in {y \in 1..Len(ws) : /\ Len(ws[y]) >= MinPoolWord
                                      /\ \A c \in 1..Len(ws[y]) : IsAlpha(ws[y][c])}}

\* the words that follow a 'Pool' label in the raw text
PoolWords(raw) ==
    IF raw = None THEN {}
    ELSE LET lines == The(raw).lines
         IN  UNION {PoolWordsOf(lines[n].val) :
                       n \in {m \in 1..Len(lines) : lines[m].label = "Pool"}}

\* the field without the words that name a pool
FieldNotPool(field, raw) ==
    IF ~TruthySeq(field) THEN field
    ELSE LET f == Strip(The(field))
         IN  IF Words(LowerStr(f), <<>>)[1] \in PoolWords(raw) THEN None ELSE Some(f)

NA == <<"N", "/", "A">>

\* 'N/A' in the notes column: the notes are kept as the sequence of their
\* parts, and no notes have no part
NotesNA == <<>>

\* re.sub(r'<[^>]+>', '', val)
RECURSIVE StripTags(_, _)
StripTags(s, i) ==
    IF i > Len(s) THEN <<>>
    ELSE LET closes == {e \in (i + 2)..Len(s) : s[e] = ">"}
         IN  IF s[i] = "<" /\ closes # {} /\ s[i + 1] # ">"
             THEN StripTags(s, Min(closes) + 1)
             ELSE <<s[i]>> \o StripTags(s, i + 1)

\* missing -> N/A, strip html (the values hold no control characters)
clean_value(val) ==
    IF val = None \/ Strip(The(val)) = <<>> THEN Some(NA)
    ELSE Some(Strip(StripTags(The(val), 1)))

na_fields ==
    <<"well_name", "address", "county", "field", "operator", "permit_number",
      "permit_date", "total_depth", "formation">>

RECURSIVE CleanFields(_, _)
CleanFields(d, keys) ==
    IF keys = <<>> THEN d
    ELSE CleanFields([d EXCEPT ![Head(keys)] = clean_value(@)], Tail(keys))

\* lines 1182-1209: the dict as main writes it
Prepared(d, filename) ==
    LET named(x) == IF TruthySeq(x.well_file_no) THEN x
                    ELSE [x EXCEPT !.well_file_no = extract_well_file_from_filename(filename)]
        pooled(x) == [x EXCEPT !.field = FieldNotPool(x.field, x.raw_extract)]
        titled(x) == [x EXCEPT !.field = IF @ = Some(NA) THEN @ ELSE Some(Title(The(@)))]
        api(x) == With(clean_value(x.api_number),
                       LAMBDA a : [x EXCEPT !.api_number = IF a = Some(NA) THEN None ELSE a])
    IN  With(d, LAMBDA d0 :
          With(named(d0), LAMBDA d1 :
            With(pooled(d1), LAMBDA d2 :
              With(CleanFields(d2, na_fields), LAMBDA d3 :
                With(titled(d3), LAMBDA d4 :
                  With(api(d4), LAMBDA d5 :
                    [d5 EXCEPT !.stimulation_notes = IF @ = None THEN Some(NotesNA) ELSE @]))))))

(***************************************************************************)
(* The store.  A wells row is [id, cols], a stimulation_data row is        *)
(* [id, well_id, cols]; created_at is left out (the upsert does not write  *)
(* it).  seqW and seqS are the AUTOINCREMENT counters of the two tables.   *)
(***************************************************************************)
WELL_COLS ==
    <<"api_number", "well_file_no", "well_name", "latitude", "longitude",
      "address", "county", "field", "operator", "permit_number", "permit_date",
      "total_depth", "formation", "stimulation_notes", "raw_extract", "pdf_source">>

STIM_COLS ==
    <<"well_id", "date_stimulated", "stimulated_formation", "top_ft", "bottom_ft",
      "stimulation_stages", "volume", "volume_units", "type_treatment", "acid_pct",
      "lbs_proppant", "max_treatment_pressure_psi", "max_treatment_rate", "details">>

Range(f) == {f[i] : i \in DOMAIN f}

\* setup_db on a new file
EmptyStore == [wells |-> {}, stim |-> {}, seqW |-> 0, seqS |-> 0]

\* raw_extract = data.get('raw_extract') or ''
EmptyText == [lines |-> <<>>, stim |-> <<>>]

\* values = tuple(data.get(c) if c != 'raw_extract' else raw_extract ...)
WellValues(d) ==
    [c \in Range(WELL_COLS) |->
        IF c = "pdf_source" THEN Some(d.pdf_source)
        ELSE IF c = "raw_extract"
        THEN (IF d.raw_extract = None THEN Some(EmptyText) ELSE d.raw_extract)
        ELSE d[c]]

\* a wells table that lets a source name in twice
NoConflict(wells, values) == {}

\* the rows that ON CONFLICT(pdf_source) finds
ConflictRows(wells, values) ==
    {r \in wells : r.cols["pdf_source"] = values["pdf_source"]}

\* the columns of a wells row that are not in WELL_COLS: created_at of
\* setup_db and the scraper's NEW_COLUMNS.  A row that was never scraped
\* reads the defaults of the columns ('N/A', and NULL for the URL).
NEW_COLUMNS ==
    <<"well_status", "well_type", "closest_city", "barrels_oil_produced",
      "mcf_gas_produced", "drillingedge_url">>

NewRowRest(now) ==
    [created_at |-> now,
     enrichment |-> [c \in Range(NEW_COLUMNS) |->
                        IF c = "drillingedge_url" THEN None ELSE Some("N/A")]]

\* INSERT OR REPLACE: the row in conflict is deleted and a new one inserted
Replaced(store, values, now) ==
    LET hit == {r \in store.wells : r.cols["pdf_source"] = values["pdf_source"]}
    IN  [store EXCEPT !.wells = (@ \ hit) \cup {[id |-> store.seqW + 1, cols |-> values,
                                                 rest |-> NewRowRest(now)]},
                      !.seqW = @ + 1]

\* INSERT INTO wells ... ON CONFLICT(pdf_source) DO UPDATE SET ... at time now
Upserted(store, values, now) ==
    LET hit == ConflictRows(store.wells, values)
    IN  IF hit # {}
        THEN [store EXCEPT !.wells = (@ \ hit) \cup {[r EXCEPT !.cols = values] : r \in hit}]
        ELSE [store EXCEPT !.wells = @ \cup {[id |-> store.seqW + 1, cols |-> values,
                                              rest |-> NewRowRest(now)]},
                           !.seqW = @ + 1]

\* SELECT id FROM wells WHERE pdf_source=? ; fetchone()[0]
SelectedId(store, pdf_source) ==
    Min({r.id : r \in {w \in store.wells : w.cols["pdf_source"] = Some(pdf_source)}})

\* a DELETE that removes no row
DeletesNothing(stim, id) == stim

\* a DELETE that removes the rows of every well
DeletesEverything(stim, id) == {}

\* DELETE FROM stimulation_data WHERE well_id=?
DeletedStim(stim, id) == {r \in stim : r.well_id # id}

\* INSERT INTO stimulation_data (...) VALUES (...)
InsertedStim(store, id, r) ==
    [store EXCEPT !.stim = @ \cup {[id |-> store.seqS + 1, well_id |-> id, cols |-> r]},
                  !.seqS = @ + 1]

(***************************************************************************)
(* Spec: main.  The directory holds the files of BatchNames; what each     *)
(* holds may change between two batches.  A statement that fails raises    *)
(* and leaves the store as it was before the statement, inside the         *)
(* transaction that stays open (sqlite3 opens it before the first write    *)
(* and main commits once, after the loop).                                 *)
(***************************************************************************)
MaxRuns == 2

BatchNames == PdfNames

\* sorted(pdf_dir.glob('*.pdf')), then --files
FileLists ==
    LET w == [prefix |-> "W", number |-> <<"1", "0", "1">>, suffix |-> ".pdf"]
        o == [prefix |-> "scan", number |-> <<>>, suffix |-> ".pdf"]
    IN  {<<w>>, <<o>>, <<w, o>>}

\* a file that pdfplumber cannot open
BrokenDoc == [opens |-> FALSE, pages |-> <<RawApiPage>>, stim |-> OneBlockText,
              casc |-> NoCascade]
\* a scan without text
BlankDoc == [opens |-> TRUE, pages |-> <<BlankPage>>, stim |-> <<>>, casc |-> NoCascade]
\* a report with one stimulation
OneStimDoc == [opens |-> TRUE, pages |-> <<RawApiPage>>, stim |-> OneBlockText,
               casc |-> NameCascade]
\* a report with two stimulations
TwoStimDoc == [opens |-> TRUE, pages |-> <<ApiTextPage>>,
               stim |-> OneBlockText \o <<HeaderLine, FullDataLine, TypeHeaderLine, AcidLine>>,
               casc |-> OtherCascade]

\* the documents a file may hold, by the name the state keeps for each
BatchDocs ==
    [broken |-> BrokenDoc, blank |-> BlankDoc, one |-> OneStimDoc, two |-> TwoStimDoc]

\* what a file of the directory may hold: the file with a number in its name
\* a report with one or two stimulations or a file that cannot be opened, the
\* other a report with one stimulation or a scan without text
DocsOf(name) ==
    IF extract_well_file_from_filename(name) # None
    THEN {"broken", "one", "two"}
    ELSE {"blank", "one"}

\* the document that a file of the directory holds
OnDisk(name) == BatchDocs[disk[name]]

Init ==
    /\ BatchIdle
    /\ StimIdle /\ PdfIdle /\ CallIdle

\* the position after document k, and where main goes from there
Advance ==
    /\ k' = k + 1
    /\ pc' = IF k + 1 > Len(pdf_files) THEN "commit" ELSE "extract"
    /\ data' = None /\ well_id' = None /\ j' = 0

\* main up to the loop: the file list, sqlite3.connect, setup_db
StartBatch ==
    /\ pc \in {"idle", "done", "killed"}
    /\ run < MaxRuns
    /\ run' = run + 1
    /\ pdf_files' \in FileLists
    /\ disk' \in {d \in [BatchNames -> DOMAIN BatchDocs] :
                    /\ \A n \in BatchNames : d[n] \in DocsOf(n)
                    \* what a file that is not read holds makes no difference
                    /\ \A n \in BatchNames \ Range(pdf_files') : d[n] = "one"}
    /\ conn' = db /\ before' = db
    /\ k' = 1 /\ inserted' = 0 /\ failed' = {}
    /\ extracted' = [n \in BatchNames |-> None]
    /\ data' = None /\ well_id' = None /\ j' = 0
    /\ pc' = "extract"
    /\ UNCHANGED <<db, stimVars, pdfVars, callVars>>

\* lines 1180-1209
Extract ==
    /\ pc = "extract"
    /\ data' = Some(Prepared(extract_from_pdf(pdf_files[k], OnDisk(pdf_files[k])),
                              pdf_files[k]))
    /\ extracted' = [extracted EXCEPT ![pdf_files[k]] = data']
    /\ pc' = "upsert"
    /\ UNCHANGED <<db, conn, before, run, disk, pdf_files, k, well_id, j, inserted,
                   failed, stimVars, pdfVars, callVars>>

\* lines 1220-1224
UpsertWell ==
    /\ pc = "upsert"
    /\ conn' = Upserted(conn, WellValues(The(data)), run)
    /\ pc' = "select"
    /\ UNCHANGED <<db, before, run, disk, pdf_files, k, data, well_id, j, inserted,
                   failed, extracted, stimVars, pdfVars, callVars>>

\* lines 1226-1227
SelectId ==
    /\ pc = "select"
    /\ well_id' = Some(SelectedId(conn, The(data).pdf_source))
    /\ pc' = "delete"
    /\ UNCHANGED <<db, conn, before, run, disk, pdf_files, k, data, j, inserted,
                   failed, extracted, stimVars, pdfVars, callVars>>

\* line 1228
DeleteStim ==
    /\ pc = "delete"
    /\ conn' = [conn EXCEPT !.stim = DeletedStim(@, The(well_id))]
    /\ j' = 1
    /\ pc' = "insert"
    /\ UNCHANGED <<db, before, run, disk, pdf_files, k, data, well_id, inserted,
                   failed, extracted, stimVars, pdfVars, callVars>>

\* lines 1229-1238, one row
InsertStim ==
    /\ pc = "insert"
    /\ j <= Len(The(data).stimulation_rows)
    /\ conn' = InsertedStim(conn, The(well_id), The(data).stimulation_rows[j])
    /\ j' = j + 1
    /\ UNCHANGED <<db, before, pc, run, disk, pdf_files, k, data, well_id, inserted,
                   failed, extracted, stimVars, pdfVars, callVars>>

\* line 1240
Counted ==
    /\ pc = "insert"
    /\ j > Len(The(data).stimulation_rows)
    /\ inserted' = inserted + 1
    /\ Advance
    /\ UNCHANGED <<db, conn, before, run, disk, pdf_files, failed, extracted,
                   stimVars, pdfVars, callVars>>

\* a batch that ends at the first write that raises
StopsAtFailure(position) == Len(pdf_files)

\* how far main is after a write has raised
AfterFailure(position) == position

\* lines 1241-1242: the statement main is at raises; the warning is printed
FailStatement ==
    /\ \/ pc \in {"upsert", "select", "delete"}
       \/ pc = "insert" /\ j <= Len(The(data).stimulation_rows)
    /\ failed' = failed \cup {pdf_files[k]}
    /\ k' = AfterFailure(k) + 1
    /\ pc' = IF AfterFailure(k) + 1 > Len(pdf_files) THEN "commit" ELSE "extract"
    /\ data' = None /\ well_id' = None /\ j' = 0
    /\ UNCHANGED <<db, conn, before, run, disk, pdf_files, inserted, extracted,
                   stimVars, pdfVars, callVars>>

\* line 1244
Commit ==
    /\ pc = "commit"
    /\ db' = conn
    /\ pc' = "done"
    /\ UNCHANGED <<conn, before, run, disk, pdf_files, k, data, well_id, j, inserted,
                   failed, extracted, stimVars, pdfVars, callVars>>

\* the process is interrupted (KeyboardInterrupt is no Exception): it ends
\* without a commit, and the open transaction is gone with the connection
Interrupt ==
    /\ pc \in {"extract", "upsert", "select", "delete", "insert"}
    /\ conn' = db
    /\ pc' = "killed"
    /\ UNCHANGED <<db, before, run, disk, pdf_files, k, data, well_id, j, inserted,
                   failed, extracted, stimVars, pdfVars, callVars>>

Next ==
    \/ StartBatch
    \/ Extract
    \/ UpsertWell
    \/ SelectId
    \/ DeleteStim
    \/ InsertStim
    \/ Counted
    \/ FailStatement
    \/ Commit
    \/ Interrupt

Spec == Init /\ [][Next]_vars


(***************************************************************************)
(* What the store holds for a document.                                    *)
(***************************************************************************)
WellRowsOf(store, name) == {w \in store.wells : w.cols["pdf_source"] = Some(name)}

StimRowsOf(store, name) ==
    {s \in store.stim : \E w \in WellRowsOf(store, name) : s.well_id = w.id}

\* the contents of rows in the order of their ids
RECURSIVE ById(_)
ById(rows) ==
    IF rows = {} THEN <<>>
    ELSE With(CHOOSE r \in rows : \A q \in rows : r.id <= q.id,
              LAMBDA first : <<first.cols>> \o ById(rows \ {first}))

StimContents(store, name) == ById(StimRowsOf(store, name))

\* the store holds what this batch extracted from the document: its well
\* row and its stimulation rows, and no other row for it
Complete(store, name) ==
    /\ extracted[name] # None
    /\ {w.cols : w \in WellRowsOf(store, name)} = {WellValues(The(extracted[name]))}
    /\ StimContents(store, name) = The(extracted[name]).stimulation_rows

\* the store holds for the document what it held before this batch
Untouched(store, name) ==
    /\ WellRowsOf(store, name) = WellRowsOf(before, name)
    /\ StimRowsOf(store, name) = StimRowsOf(before, name)

Listed == Range(pdf_files)

\* C1: in the committed store every document of the batch is all or
\* nothing: its well row and the complete new set of stimulation rows are
\* there, or its previous rows are untouched, also when a write for the
\* document failed partway.
C1_AllOrNothing ==
    pc = "done" =>
        \A name \in Listed : Complete(db, name) \/ Untouched(db, name)

\* C3: after a document has been processed successfully the stimulation
\* rows stored for its well are exactly the rows extracted in that run, in
\* their order, and the rows of the wells that the batch does not process
\* are the rows they were.
C3_RowsReplacedPerWell ==
    pc = "done" =>
        /\ \A name \in Listed \ failed :
                StimContents(db, name) = The(extracted[name]).stimulation_rows
        /\ \A name \in BatchNames \ Listed :
                StimRowsOf(db, name) = StimRowsOf(before, name)

\* a second batch has replaced other rows of a document, while the well
\* that is not in its list keeps its rows
C3_Witness ==
    /\ pc = "done" /\ run = 2
    /\ \E name \in Listed \ failed :
            /\ StimContents(before, name) # <<>>
            /\ StimContents(db, name) # <<>>
            /\ StimContents(before, name) # StimContents(db, name)
    /\ \E name \in BatchNames \ Listed : StimRowsOf(db, name) # {}

\* what the store holds, without the ids
Content(store) ==
    [name \in BatchNames |->
        [well |-> {w.cols : w \in WellRowsOf(store, name)},
         stim |-> StimContents(store, name)]]

\* C4: a batch over documents whose extraction the store already holds
\* (what an earlier batch over the same documents left) and in which no
\* write fails leaves the store with the same well row contents and the same
\* stimulation row contents per document.
C4_SecondRunChangesNothing ==
    (/\ pc = "done" /\ failed = {}
     /\ \A name \in Listed : Complete(before, name)) =>
        Content(db) = Content(before)

\* the second batch wrote again a document with stimulation rows
C4_Witness ==
    /\ pc = "done" /\ run = 2 /\ failed = {}
    /\ \A name \in Listed : Complete(before, name)
    /\ \E name \in Listed : Len(StimContents(db, name)) >= 2

OneRowPerSource(store) ==
    \A a \in store.wells : \A b \in store.wells :
        a.cols["pdf_source"] = b.cols["pdf_source"] => a = b

\* C5: the wells table holds at most one row per pdf_source, in the
\* committed store and in the open transaction.
C5_OneWellPerSource == OneRowPerSource(db) /\ OneRowPerSource(conn)

\* the upsert has met a row of the same source
C5_Witness ==
    /\ pc = "select"
    /\ WellRowsOf(before, pdf_files[k]) # {}
    /\ \E w \in WellRowsOf(before, pdf_files[k]) :
            w.cols # WellValues(The(data))

\* C6: a write that fails for one document does not stop the batch: every
\* document of the list is extracted, every document without a failed write
\* is persisted, and the documents counted as inserted are those without a
\* failed write.
C6_BatchContinues ==
    pc = "done" =>
        /\ \A name \in Listed : extracted[name] # None
        /\ \A name \in Listed \ failed : Complete(db, name)
        /\ inserted = Len(pdf_files) - Cardinality(failed)

\* a write failed for the first document and the second is persisted
C6_Witness ==
    /\ pc = "done" /\ Len(pdf_files) = 2
    /\ failed = {pdf_files[1]}
    /\ Complete(db, pdf_files[2])
    /\ inserted = 1

\* C7: when the batch is interrupted while document k is in flight, the
\* store holds the records of every document processed before k, and
\* document k is fully written or not written at all.
C7_InterruptKeepsEarlier ==
    pc = "killed" =>
        /\ \A i \in 1..(k - 1) :
                pdf_files[i] \notin failed => Complete(db, pdf_files[i])
        /\ Complete(db, pdf_files[k]) \/ Untouched(db, pdf_files[k])

\* the document cannot be opened or has no text
Unreadable(doc) == ~doc.opens \/ TextIsBlank(FullText(doc))

TextFields ==
    {"well_name", "address", "county", "field", "operator", "permit_number",
     "permit_date", "total_depth", "formation"}

\* nothing was extracted from the document itself
NothingExtracted(d) ==
    /\ d.api_number = None /\ d.latitude = None /\ d.longitude = None
    /\ \A f \in TextFields : d[f] = Some(NA)
    /\ d.stimulation_notes = Some(NotesNA)
    /\ d.raw_extract = None
    /\ d.stimulation_rows = <<>>

\* C8: a document that cannot be opened or has no text gives, without
\* raising, a well record in which every field other than pdf_source and
\* well_file_no is null, 'N/A' or empty, well_file_no is the number in the
\* file name (null when the name has none), and no stimulation records; the
\* batch goes on, and the documents without a failed write are persisted.
C8_UnreadableGivesEmptyRecord ==
    /\ \A name \in Listed :
            (extracted[name] # None /\ Unreadable(OnDisk(name))) =>
                /\ NothingExtracted(The(extracted[name]))
                /\ The(extracted[name]).well_file_no
                        = extract_well_file_from_filename(name)
    /\ pc = "done" => \A name \in Listed \ failed : Complete(db, name)

\* C8 as stated: every extracted field of the record, well_file_no
\* included, is null or empty.
C8_EveryFieldEmpty ==
    \A name \in Listed :
        (extracted[name] # None /\ Unreadable(OnDisk(name))) =>
            /\ NothingExtracted(The(extracted[name]))
            /\ The(extracted[name]).well_file_no = None

\* a file that cannot be opened is first in the list, its record is stored
\* without stimulation rows, and the document after it is persisted
C8_Witness ==
    /\ pc = "done" /\ Len(pdf_files) = 2 /\ failed = {}
    /\ ~OnDisk(pdf_files[1]).opens
    /\ ~Unreadable(OnDisk(pdf_files[2]))
    /\ Complete(db, pdf_files[1]) /\ StimRowsOf(db, pdf_files[1]) = {}
    /\ The(extracted[pdf_files[1]]).well_file_no # None
    /\ Complete(db, pdf_files[2]) /\ StimRowsOf(db, pdf_files[2]) # {}

(***************************************************************************)
(* extract_latitude, extract_longitude.  A text is given by what the       *)
(* patterns of the two functions find in it:                               *)
(*   dms     the groups of the labelled DMS patterns that match, in the    *)
(*           order of the patterns (degrees, minutes, seconds * 1000),     *)
(*   dec     the captures of the labelled decimal patterns, in the order   *)
(*           of the three finditer loops, in millionths of a degree,       *)
(*   survey  the capture of the survey-window pattern, if it matches.      *)
(***************************************************************************)
\* _coord_bounds with no variable set
DefaultBounds ==
    [lat_min |-> -LatLimit * Micro, lat_max |-> LatLimit * Micro,
     lon_abs_min |-> 0, lon_abs_max |-> LonLimit * Micro, lon_deg_min |-> 0]

NdLatMin == 45900000
NdLatMax == 49100000
NdLonMin == 96500000
NdLonMax == 104100000

Abs(v) == IF v < 0 THEN 0 - v ELSE v

_nd_lat_ok(v) == NdLatMin <= v /\ v <= NdLatMax

_nd_lon_ok(v) == NdLonMin <= Abs(v) /\ Abs(v) <= NdLonMax

\* the values of a sequence of optionals that are there and pass the test
Admitted(vals, Ok(_)) ==
    With(SelectSeq(vals, LAMBDA d : d # None /\ Ok(The(d))), LAMBDA kept :
        [i \in 1..Len(kept) |-> The(kept[i])])

LatInRange(v) == -LatLimit * Micro <= v /\ v <= LatLimit * Micro

LonInRange(v) == -LonLimit * Micro <= v /\ v <= LonLimit * Micro

\* dms_to_decimal of  f"{deg}° {min}' {sec}\" N"
LatDmsValue(m) == DmsValue(m.deg * 1000, m.min * 1000, m.sec, FALSE)

\* dms_to_decimal of  f"-{deg}° {min}' {sec}\" W", made negative
LonDmsValue(m) ==
    With(DmsValue(0 - m.deg * 1000, m.min * 1000, m.sec, TRUE), LAMBDA dec :
        IF dec # None /\ The(dec) > 0 THEN Some(0 - The(dec)) ELSE dec)

\* the candidates of the labelled DMS patterns
LatDmsCandidates(dms) ==
    Admitted([i \in 1..Len(dms) |-> LatDmsValue(dms[i])], LatInRange)

\* a match whose degrees are below lon_deg_min is passed over
LonDmsCandidates(dms, lon_deg_min) ==
    Admitted([i \in 1..Len(dms) |->
                IF dms[i].deg * Micro < lon_deg_min THEN None ELSE LonDmsValue(dms[i])],
             LonInRange)

\* the candidates of the labelled decimal patterns
LatDecCandidates(dec) ==
    Admitted([i \in 1..Len(dec) |-> Some(dec[i])], LatInRange)

LonDecCandidates(dec) ==
    Admitted([i \in 1..Len(dec) |-> Some(IF dec[i] > 0 THEN 0 - dec[i] ELSE dec[i])],
             LonInRange)

\* the candidate of the survey window: admitted by the bounds lo, hi
LatSurveyCandidates(survey, lo, hi) ==
    IF survey # None /\ lo <= The(survey) /\ The(survey) <= hi
    THEN <<The(survey)>> ELSE <<>>

LonSurveyCandidates(survey, lo, hi) ==
    IF survey # None /\ lo <= The(survey) /\ The(survey) <= hi
    THEN <<0 - The(survey)>> ELSE <<>>

\* for v in candidates: if ok(v): return v ; return candidates[0] or None
Preferred(candidates, Ok(_)) ==
    With(candidates, LAMBDA c :
        With({i \in 1..Len(c) : Ok(c[i])}, LAMBDA inBox :
            IF inBox # {} THEN Some(c[Min(inBox)])
            ELSE IF c # <<>> THEN Some(c[1])
            ELSE None))

extract_latitude(text, bounds) ==
    Preferred(LatDmsCandidates(text.dms) \o LatDecCandidates(text.dec)
                \o LatSurveyCandidates(text.survey, bounds.lat_min, bounds.lat_max),
              _nd_lat_ok)

extract_longitude(text, bounds) ==
    Preferred(LonDmsCandidates(text.dms, bounds.lon_deg_min) \o LonDecCandidates(text.dec)
                \o LonSurveyCandidates(text.survey, bounds.lon_abs_min, bounds.lon_abs_max),
              _nd_lon_ok)

(***************************************************************************)
(* SpecCoord                                                               *)
(***************************************************************************)
MaxDecimals == 2

\* a box around the region, and bounds wider than the globe
RegionalBounds ==
    [lat_min |-> NdLatMin, lat_max |-> NdLatMax,
     lon_abs_min |-> NdLonMin, lon_abs_max |-> NdLonMax, lon_deg_min |-> 96 * Micro]

WideBounds ==
    [lat_min |-> -95 * Micro, lat_max |-> 95 * Micro,
     lon_abs_min |-> 0, lon_abs_max |-> 200 * Micro, lon_deg_min |-> 0]

CoordBounds == {DefaultBounds, RegionalBounds, WideBounds}

\* 47 30 15, 35 10 0, 95 0 0, 47 61 0
LatDmsMatches ==
    {[deg |-> 47, min |-> 30, sec |-> 15000], [deg |-> 35, min |-> 10, sec |-> 0],
     [deg |-> 95, min |-> 0, sec |-> 0], [deg |-> 47, min |-> 61, sec |-> 0]}

\* 102 30 0, 85 30 15, 190 0 0
LonDmsMatches ==
    {[deg |-> 102, min |-> 30, sec |-> 0], [deg |-> 85, min |-> 30, sec |-> 15000],
     [deg |-> 190, min |-> 0, sec |-> 0]}

\* 47.50, 35.12, 93.50
LatCaptures == {47500000, 35120000, 93500000}

\* 102.50, -102.75, 85.25, 190.25
LonCaptures == {102500000, -102750000, 85250000, 190250000}

\* the survey pattern captures no sign
LonSurveyCaptures == {102500000, 85250000, 190250000}

CoordTexts(dmsMatches, captures, surveyCaptures) ==
    [dms : {<<>>} \cup {<<m>> : m \in dmsMatches},
     dec : UNION {[1..n -> captures] : n \in 0..MaxDecimals},
     survey : {None} \cup {Some(v) : v \in surveyCaptures}]

CoordCalls ==
    [fn : {"extract_latitude"}, text : CoordTexts(LatDmsMatches, LatCaptures, LatCaptures),
     bounds : CoordBounds]
    \cup
    [fn : {"extract_longitude"},
     text : CoordTexts(LonDmsMatches, LonCaptures, LonSurveyCaptures),
     bounds : CoordBounds]

InitCoord ==
    /\ call \in {Some(c) : c \in CoordCalls}
    /\ ret = None
    /\ StimIdle /\ PdfIdle /\ BatchIdle

ExtractLatitude ==
    /\ ret = None /\ The(call).fn = "extract_latitude"
    /\ ret' = Some(extract_latitude(The(call).text, The(call).bounds))
    /\ UNCHANGED <<call, stimVars, pdfVars, batchVars>>

ExtractLongitude ==
    /\ ret = None /\ The(call).fn = "extract_longitude"
    /\ ret' = Some(extract_longitude(The(call).text, The(call).bounds))
    /\ UNCHANGED <<call, stimVars, pdfVars, batchVars>>

NextCoord == ExtractLatitude \/ ExtractLongitude

SpecCoord == InitCoord /\ [][NextCoord]_vars

\* C11: extract_latitude returns no value outside [-90, 90] and
\* extract_longitude no value outside [-180, 180], whatever the text and the
\* configured coordinate bounds.
C11_CoordinateInRange ==
    (ret # None /\ The(ret) # None) =>
        IF The(call).fn = "extract_latitude"
        THEN LatInRange(The(The(ret))) ELSE LonInRange(The(The(ret)))

\* the range-valid candidates of a text: labelled DMS, labelled decimal,
\* survey window, each admitted by the global range alone
RangeValid(c) ==
    IF c.fn = "extract_latitude"
    THEN LatDmsCandidates(c.text.dms) \o LatDecCandidates(c.text.dec)
            \o LatSurveyCandidates(c.text.survey, -LatLimit * Micro, LatLimit * Micro)
    ELSE LonDmsCandidates(c.text.dms, 0) \o LonDecCandidates(c.text.dec)
            \o LonSurveyCandidates(c.text.survey, 0, LonLimit * Micro)

\* C12: the bounding box only chooses among the range-valid candidates: the
\* first of them that lies in the box is returned, the first of them when
\* none lies in the box, and a value is returned whenever there is one.
C12_BoxOnlyPrefers ==
    ret # None =>
        The(ret) = IF The(call).fn = "extract_latitude"
                   THEN Preferred(RangeValid(The(call)), _nd_lat_ok)
                   ELSE Preferred(RangeValid(The(call)), _nd_lon_ok)

(***************************************************************************)
(* SpecBlock: extract_stimulations on the texts of one block: a boundary   *)
(* header, with or without a preamble before it, and one data line made of *)
(* a date, a formation word and numeric tokens.                            *)
(***************************************************************************)
MaxDataTokens == 4

\* 6/1/2019, 6-1-2019, 2/30/2019
SlashDate == [n |-> <<6, 1, 2019>>, sep |-> "/"]
DashDate == [n |-> <<6, 1, 2019>>, sep |-> "-"]
NoSuchDay == [n |-> <<2, 30, 2019>>, sep |-> "/"]

BlockDates == {SlashDate, DashDate, NoSuchDay}

BlockFormations == {"Bakken", "Three Forks"}

BlockTokens == {12, 150, 2000, 9500, 450000}

BlockDataLines ==
    {StimLine("line", FALSE, Some(d), Some(f), None, nums, None, FALSE) :
        d \in BlockDates, f \in BlockFormations,
        nums \in UNION {[1..n -> BlockTokens] : n \in 0..MaxDataTokens}}

BlockTexts ==
    {<<PreambleLine, HeaderLine, l>> : l \in BlockDataLines}
    \cup {<<HeaderLine, l>> : l \in BlockDataLines}

InitBlock ==
    /\ stimIn \in BlockTexts
    /\ stimOut = None
    /\ PdfIdle /\ BatchIdle /\ CallIdle

SpecBlock == InitBlock /\ [][NextStim]_vars

\* the data line of the one block the function examines
ExaminedLine == StimBlocks(stimIn)[1][2]

\* a data line of a date, a formation and top, bottom, stages, volume
FourFieldLine(l) ==
    /\ l.date # None /\ l.formation # None
    /\ ValidDate(The(l.date).n[3], The(l.date).n[1], The(l.date).n[2])
    /\ Len(l.nums) = 4
    /\ \A i \in 1..2 : l.nums[i] > SmallToken /\ ~(YearFrom <= l.nums[i] /\ l.nums[i] <= YearTo)
    /\ l.nums[3] < MaxStages

\* the date year-month-day
IsoOf(d) == [n |-> <<d.n[3], d.n[1], d.n[2]>>, sep |-> "-"]

PositionalFields(r) ==
    <<r.stimulated_formation, r.top_ft, r.bottom_ft, r.stimulation_stages, r.volume>>

\* C13: a validated block whose data line is a date, a formation word and
\* four numbers top, bottom, stages, volume gives one record with the ISO
\* date, that formation and the four numbers in their fields.
C13_DataLineRecord ==
    (stimOut # None /\ StimBlocks(stimIn) # <<>> /\ FourFieldLine(ExaminedLine)) =>
        /\ Len(The(stimOut)) = 1
        /\ PositionalFields(The(stimOut)[1])
             = <<ExaminedLine.formation, Some(ExaminedLine.nums[1]),
                 Some(ExaminedLine.nums[2]), Some(ExaminedLine.nums[3]),
                 Some(ExaminedLine.nums[4])>>
        /\ The(stimOut)[1].date_stimulated = Some(IsoOf(The(ExaminedLine.date)))

(***************************************************************************)
(* SpecApi: extract_api on texts of labelled lines.                        *)
(***************************************************************************)
MaxApiLines == 2

ApiLabels == {"API:", "API Number", "Remarks"}

\* '33053067550', '3305306755', '33-053-06755', '42053067550', 'see file'
ApiValues ==
    {<<"3", "3", "0", "5", "3", "0", "6", "7", "5", "5", "0">>,
     <<"3", "3", "0", "5", "3", "0", "6", "7", "5", "5">>,
     <<"3", "3", "-", "0", "5", "3", "-", "0", "6", "7", "5", "5">>,
     <<"4", "2", "0", "5", "3", "0", "6", "7", "5", "5", "0">>,
     <<"s", "e", "e", " ", "f", "i", "l", "e">>}

ApiLines == [label : ApiLabels, val : ApiValues]

ApiTexts == UNION {[1..n -> ApiLines] : n \in 1..MaxApiLines}

InitApi ==
    /\ call \in {Some([fn |-> "extract_api", text |-> t]) : t \in ApiTexts}
    /\ ret = None
    /\ StimIdle /\ PdfIdle /\ BatchIdle

ExtractApi ==
    /\ ret = None /\ The(call).fn = "extract_api"
    /\ ret' = Some(extract_api(The(call).text))
    /\ UNCHANGED <<call, stimVars, pdfVars, batchVars>>

NextApi == ExtractApi

SpecApi == InitApi /\ [][NextApi]_vars

\* an API label followed by an unseparated run of eleven digits that begins
\* with 33
ElevenDigit33(ln) ==
    /\ ln.label \in BareApiLabels
    /\ Len(ln.val) = 11 /\ AllDigits(ln.val, 1, 11)
    /\ SubSeq(ln.val, 1, 2) = <<"3", "3">>

\* '33-' digits 4-6 '-' digits 7-11
KnownPrefixForm(raw) ==
    <<"3", "3", "-">> \o SubSeq(raw, 4, 6) \o <<"-">> \o SubSeq(raw, 7, 11)

\* C14: on a text whose one API-labelled line carries an unseparated run of
\* eleven digits beginning with 33, extract_api returns the identifier of
\* the known-prefix rule: '33-', digits 4-6 of the run, '-', digits 7-11.
C14_KnownPrefixRule ==
    ret # None =>
        \A i \in 1..Len(The(call).text) :
            (/\ ElevenDigit33(The(call).text[i])
             /\ \A o \in 1..Len(The(call).text) :
                    o # i => The(call).text[o].label = "Remarks")
            => The(ret) = Some(KnownPrefixForm(The(call).text[i].val))

(***************************************************************************)
(* SpecDate: normalize_date_to_iso on dates of two to four numeric         *)
(* components.                                                             *)
(***************************************************************************)
DateMonths == {0, 2, 12, 13, 31}
DateDays == {2, 3, 29, 30, 31}
DateYears == {0, 25, 49, 50, 99, 1900, 2019, 2020}

DateInputs ==
    [n : UNION {[1..len -> DateDays] : len \in {2, 4}}
         \cup {<<a, b, c>> : a \in DateMonths, b \in DateDays, c \in DateYears},
     sep : {"/", "-"}]

InitDate ==
    /\ call \in {Some([fn |-> "normalize_date_to_iso", date_str |-> Some(d)]) :
                    d \in DateInputs}
    /\ ret = None
    /\ StimIdle /\ PdfIdle /\ BatchIdle

NormalizeDateToIso ==
    /\ ret = None /\ The(call).fn = "normalize_date_to_iso"
    /\ ret' = Some(normalize_date_to_iso(The(call).date_str))
    /\ UNCHANGED <<call, stimVars, pdfVars, batchVars>>

NextDate == NormalizeDateToIso

SpecDate == InitDate /\ [][NextDate]_vars

\* the call was on three components a/b/c
SlashDateCall ==
    /\ ret # None
    /\ The(The(call).date_str).sep = "/"
    /\ Len(The(The(call).date_str).n) = 3

\* the year of a/b/c: a two-digit c is 2000+c below 50 and 1900+c from 50 on
PivotYear(c) == IF c >= 100 THEN c ELSE IF c < 50 THEN 2000 + c ELSE 1900 + c

\* the first calendar-valid reading of a/b/c, (month, day) = (a, b) first
FirstValidReading(a, b, c) ==
    IF ValidDate(PivotYear(c), a, b) THEN Some(<<PivotYear(c), a, b>>)
    ELSE IF ValidDate(PivotYear(c), b, a) THEN Some(<<PivotYear(c), b, a>>)
    ELSE None

\* C15: normalize_date_to_iso on a/b/c resolves a two-digit year c to 2000+c
\* below the cutoff 50 and to 1900+c otherwise, returns the first
\* calendar-valid date of (month, day) = (a, b), then (b, a), and returns no
\* value when neither is a calendar date.
C15_FirstValidReading ==
    SlashDateCall =>
        With(The(The(call).date_str).n, LAMBDA n :
            With(FirstValidReading(n[1], n[2], n[3]), LAMBDA first :
                IF first = None THEN The(ret) = None
                ELSE The(ret) = Some([n |-> The(first), sep |-> "-"])))

\* 13/2/49 is read day first and gives 2049-02-13
C15_Witness ==
    /\ SlashDateCall
    /\ The(The(call).date_str).n = <<13, 2, 49>>
    /\ The(ret) = Some([n |-> <<2049, 2, 13>>, sep |-> "-"])

(***************************************************************************)
(* SpecDms: dms_to_decimal on strings of up to three numeric components    *)
(* and a hemisphere letter, written bare ('47 30 15 N') or with the units  *)
(* spelled ('47 deg 30 min 15 sec N').                                     *)
(***************************************************************************)
DmsDegrees == {<<"4", "7">>, <<"-", "4", "7">>, <<"1", "0", "2">>, <<"0">>}
DmsMinutes == {<<"3", "0">>, <<"0">>, <<"7", ".", "5">>, <<"6", "0">>}
DmsSeconds == {<<"1", "5">>, <<"0">>, <<"5", "9", ".", "9", "9", "9">>, <<"6", "0">>}
DmsHemispheres == {<<>>, <<" ", "N">>, <<" ", "E">>, <<" ", "W">>, <<" ", "S">>}

DmsUnit(spelled, unit) == IF spelled THEN <<" ">> \o unit \o <<" ">> ELSE <<" ">>

DmsStrings ==
    {d \o DmsUnit(sp, <<"d", "e", "g">>) \o m \o DmsUnit(sp, <<"m", "i", "n">>)
       \o sec \o (IF sp THEN <<" ", "s", "e", "c">> ELSE <<>>) \o h :
        d \in DmsDegrees, m \in DmsMinutes, sec \in DmsSeconds,
        h \in DmsHemispheres, sp \in BOOLEAN}
    \cup {d \o <<" ">> \o m \o h : d \in DmsDegrees, m \in DmsMinutes, h \in DmsHemispheres}
    \cup {<<>>, <<" ">>}

InitDms ==
    /\ call \in {Some([fn |-> "dms_to_decimal", dms_str |-> str]) : str \in DmsStrings}
    /\ ret = None
    /\ StimIdle /\ PdfIdle /\ BatchIdle

DmsToDecimal ==
    /\ ret = None /\ The(call).fn = "dms_to_decimal"
    /\ ret' = Some(dms_to_decimal(The(call).dms_str))
    /\ UNCHANGED <<call, stimVars, pdfVars, batchVars>>

NextDms == DmsToDecimal

SpecDms == InitDms /\ [][NextDms]_vars

\* the numeric components of a string, in thousandths
DmsComponents(str) ==
    With(NumberTokens(str, 1), LAMBDA parts : [i \in 1..Len(parts) |-> TokenMilli(parts[i])])

\* the string carries a West or South hemisphere marker: a word W, S, West
\* or South
HemisphereMarker(str) ==
    \E w \in Range(Words(str, <<>>)) :
        LowerStr(w) \in {<<"w">>, <<"s">>, <<"w", "e", "s", "t">>,
                         <<"s", "o", "u", "t", "h">>}

\* v millionths is |deg| + mins/60 + secs/3600 rounded to 6 decimals
\* (deg, mins, secs in thousandths)
IsRoundedDms(v, deg, mins, secs) ==
    With(18 * (v - Abs(deg) * 1000) - (mins * 60 + secs) * 5, LAMBDA err :
        -9 <= err /\ err <= 9)

\* C16: with three components and minutes, seconds in [0, 60) the value of
\* dms_to_decimal has the magnitude |degrees| + minutes/60 + seconds/3600
\* rounded to 6 decimals and is negative exactly when the degrees are
\* negative or the string carries a West/South marker (a value of zero has
\* no sign); otherwise there is no value.
C16_DmsToDecimal ==
    ret # None =>
        With(DmsComponents(The(call).dms_str), LAMBDA c :
            IF Len(c) >= 3 /\ \A i \in 2..3 : 0 <= c[i] /\ c[i] < 60 * 1000
            THEN /\ The(ret) # None
                 /\ IsRoundedDms(Abs(The(The(ret))), c[1], c[2], c[3])
                 /\ The(The(ret)) # 0 =>
                        ((The(The(ret)) < 0)
                            <=> (c[1] < 0 \/ HemisphereMarker(The(call).dms_str)))
            ELSE The(ret) = None)

(***************************************************************************)
(* SpecOcr: the OCR fallback of extract_from_pdf.  The text read from the  *)
(* pages is given by the length of full_text.strip(); the environment by   *)
(* USE_OCR_FALLBACK (set or not), the two OCR libraries (imported or not)  *)
(* and OCR_FALLBACK_MIN_CHARS (a number, or None when it is not set or     *)
(* blank); the OCR by the length of the text it returns, or None when it   *)
(* raises.                                                                 *)
(***************************************************************************)
MaxTextLen == 4

OcrEnvs ==
    [USE_OCR_FALLBACK : BOOLEAN, libraries : BOOLEAN,
     OCR_FALLBACK_MIN_CHARS : {None} \cup {Some(n) : n \in 0..MaxTextLen + 1}]

\* run_ocr, inside the test of line 989
OcrRuns(env, text_len) ==
    /\ env.USE_OCR_FALLBACK /\ env.libraries
    /\ \/ env.OCR_FALLBACK_MIN_CHARS = None
       \/ text_len < The(env.OCR_FALLBACK_MIN_CHARS)

\* whether convert_from_path was called, and the length of full_text after
\* the block: the OCR text, a newline and the text of the pages
OcrFallback(env, text_len, ocr) ==
    IF ~OcrRuns(env, text_len) THEN [ocr_called |-> FALSE, text_len |-> text_len]
    ELSE IF ocr = None THEN [ocr_called |-> TRUE, text_len |-> text_len]
    ELSE [ocr_called |-> TRUE, text_len |-> The(ocr) + 1 + text_len]

OcrCalls ==
    [fn : {"ocr_fallback"}, env : OcrEnvs, text_len : 0..MaxTextLen,
     ocr : {None} \cup {Some(n) : n \in 0..1}]

InitOcr ==
    /\ call \in {Some(c) : c \in OcrCalls}
    /\ ret = None
    /\ StimIdle /\ PdfIdle /\ BatchIdle

TryOcrFallback ==
    /\ ret = None /\ The(call).fn = "ocr_fallback"
    /\ ret' = Some(OcrFallback(The(call).env, The(call).text_len, The(call).ocr))
    /\ UNCHANGED <<call, stimVars, pdfVars, batchVars>>

NextOcr == TryOcrFallback

SpecOcr == InitOcr /\ [][NextOcr]_vars

\* C17: the OCR is called only when the text of the pages is empty or shorter
\* than the configured threshold; with no threshold configured and a
\* non-empty text it is not called.
C17_OcrOnlyOnShortText ==
    (ret # None /\ The(ret).ocr_called) =>
        \/ The(call).text_len = 0
        \/ /\ The(call).env.OCR_FALLBACK_MIN_CHARS # None
           /\ The(call).text_len < The(The(call).env.OCR_FALLBACK_MIN_CHARS)

(***************************************************************************)
(* The segments of a stimulation text                                      *)
(***************************************************************************)
\* the non-blank segments that follow a boundary header: every part of the
\* split but the one before the first boundary
SegmentsAfterBoundary(text) ==
    SelectSeq(Tail(SplitParts(text, 1, <<>>, <<>>)), LAMBDA seg : seg # <<>>)

\* C18: every segment that follows a boundary header is examined as a block,
\* so the record of each such segment that parses is among the records
\* returned; only the text before the first boundary is left out.
C18_SegmentsExamined ==
    stimOut # None =>
        \A n \in 1..Len(SegmentsAfterBoundary(stimIn)) :
            With(ParseBlock(SegmentsAfterBoundary(stimIn)[n]), LAMBDA r :
                r # None => \E i \in 1..Len(The(stimOut)) : The(stimOut)[i] = The(r))

(***************************************************************************)
(* SpecTables: extract_from_tables on the tables of one page.              *)
(***************************************************************************)
MaxTables == 2

\* ['API', '33-053-06755'], ['County', 'Dunn'], ['Operator', 'Acme', 'x'],
\* ['Operator'], ['Well', 'A', 'B'], [None, ' ']
ApiRow == <<Some("API"), Some(<<"3", "3", "-", "0", "5", "3", "-", "0", "6", "7", "5", "5">>)>>
CountyRow == <<Some("County"), Some(<<"D", "u", "n", "n">>)>>
OperatorRow3 == <<Some("Operator"), Some(<<"A", "c", "m", "e">>), Some(<<"x">>)>>
OperatorRow1 == <<Some("Operator")>>
WideRow == <<Some("Well"), Some(<<"A">>), Some(<<"B">>)>>
BlankRow == <<None, Some(<<" ">>)>>

SampleTables ==
    {<<>>, <<ApiRow>>, <<WideRow>>,
     <<ApiRow, CountyRow>>, <<CountyRow, BlankRow>>,
     <<ApiRow, OperatorRow3>>, <<CountyRow, OperatorRow1>>,
     <<WideRow, ApiRow>>, <<WideRow, OperatorRow3>>}

TableLists == UNION {[1..n -> SampleTables] : n \in 0..MaxTables}

InitTables ==
    /\ call \in {Some([fn |-> "extract_from_tables", tables |-> t]) : t \in TableLists}
    /\ ret = None
    /\ StimIdle /\ PdfIdle /\ BatchIdle

ExtractFromTables ==
    /\ ret = None /\ The(call).fn = "extract_from_tables"
    /\ ret' = Some(extract_from_tables(The(call).tables))
    /\ UNCHANGED <<call, stimVars, pdfVars, batchVars>>

NextTables == ExtractFromTables

SpecTables == InitTables /\ [][NextTables]_vars

\* every row of the table has exactly two cells
AllRowsTwoCells(table) == \A i \in 1..Len(table) : Len(table[i]) = 2

\* C19: a table is a key/value block only if every one of its rows has
\* exactly two cells: the lookup is the one that the tables with only
\* two-cell rows give, a table with a row of another width adds nothing to it.
C19_KeyValueNeedsTwoCells ==
    ret # None =>
        The(ret).kv = extract_from_tables(SelectSeq(The(call).tables, AllRowsTwoCells)).kv

\* the text lines of the tables that are not two-column: each of their rows,
\* flattened
RECURSIVE GenericTableText(_)
GenericTableText(tables) ==
    IF tables = <<>> THEN <<>>
    ELSE (IF Head(tables) # <<>> /\ ~IsKeyValueTable(Head(tables))
          THEN TableTextLines(Head(tables)) ELSE <<>>)
         \o GenericTableText(Tail(tables))

\* C20: the rows of a table are appended to the text if and only if the
\* table is not a two-column key/value block: every other table, of any
\* number of rows, is flattened into text lines and a key/value block adds
\* none.
C20_TextIffGeneric ==
    ret # None => The(ret).text_lines = GenericTableText(The(call).tables)

(***************************************************************************)
(* SpecName: the file number and the well name in extract_from_pdf.  A     *)
(* text is given by what the patterns find in it:                          *)
(*   file_no   the number after 'Well File' / 'File #',                    *)
(*   anchored  the 'File # <number> <name> LOT ...' shapes: number, name,  *)
(*   labelled  the name the label strategies ('Well Name ...') return.     *)
(***************************************************************************)
NameMinLen == 3

extract_well_file_from_text(text) == text.file_no

\* the strategy anchored to the file number, then the label strategies
extract_well_name(text, well_file_no) ==
    With({i \in 1..Len(text.anchored) :
            /\ TruthySeq(well_file_no)
            /\ text.anchored[i].number = The(well_file_no)}, LAMBDA hits :
        IF hits # {} /\ Len(text.anchored[Min(hits)].name) > NameMinLen
        THEN Some(text.anchored[Min(hits)].name)
        ELSE text.labelled)

\* well_file, result['well_file_no'] and result['well_name'] of extract_from_pdf
FileNumberAndName(filename, text) ==
    With(extract_well_file_from_filename(filename), LAMBDA well_file :
      With(extract_well_name(text, well_file), LAMBDA name :
        [well_file_no |-> IF TruthySeq(well_file) THEN well_file
                          ELSE extract_well_file_from_text(text),
         well_name |-> IF name = None THEN None
                       ELSE Some(_apply_ocr_fixes(The(name), WELL_NAME_OCR_FIXES))]))

\* W12345.pdf, W67890.pdf, scan.pdf
NameFiles ==
    {[prefix |-> "W", number |-> <<"1", "2", "3", "4", "5">>, suffix |-> ".pdf"],
     [prefix |-> "W", number |-> <<"6", "7", "8", "9", "0">>, suffix |-> ".pdf"],
     [prefix |-> "scan", number |-> <<>>, suffix |-> ".pdf"]}

FileNumbers == {<<"1", "2", "3", "4", "5">>, <<"6", "7", "8", "9", "0">>}

\* 'Alpha 1H', 'Ab'
AnchoredNames == {<<"A", "l", "p", "h", "a", " ", "1", "H">>, <<"A", "b">>}

\* 'Beta 2'
LabelledNames == {<<"B", "e", "t", "a", " ", "2">>}

NameTexts ==
    [file_no : {None} \cup {Some(n) : n \in FileNumbers},
     anchored : {<<>>} \cup {<<[number |-> n, name |-> a]>> : n \in FileNumbers, a \in AnchoredNames},
     labelled : {None} \cup {Some(l) : l \in LabelledNames}]

InitName ==
    /\ call \in {Some([fn |-> "extract_well_name", filename |-> f, text |-> t]) :
                    f \in NameFiles, t \in NameTexts}
    /\ ret = None
    /\ StimIdle /\ PdfIdle /\ BatchIdle

ExtractWellName ==
    /\ ret = None /\ The(call).fn = "extract_well_name"
    /\ ret' = Some(FileNumberAndName(The(call).filename, The(call).text))
    /\ UNCHANGED <<call, stimVars, pdfVars, batchVars>>

NextName == ExtractWellName

SpecName == InitName /\ [][NextName]_vars

\* C21: when the document has a file number, from the file name or from the
\* text, the name cascade is run with it: a name that the text anchors to
\* that number (and that is long enough) is the well name, before any
\* labelled name.
C21_NameAnchoredToFileNumber ==
    (ret # None /\ TruthySeq(The(ret).well_file_no)) =>
        \A i \in 1..Len(The(call).text.anchored) :
            (/\ The(call).text.anchored[i].number = The(The(ret).well_file_no)
             /\ Len(The(call).text.anchored[i].name) > 3)
            => The(ret).well_name = Some(The(call).text.anchored[i].name)

(***************************************************************************)
(* The positional fields of a block's record                               *)
(***************************************************************************)
\* a leading token that is skipped: a small number or a calendar year
Skipped(v) == v < 100 \/ (1990 <= v /\ v <= 2100)

\* the tokens the assignment works on: those after the formation of the
\* record, all the tokens of the line when the record has no formation
AssignedTokens(l, r) ==
    IF r.stimulated_formation # None THEN l.nums ELSE The(l.date).n \o l.nums

\* token p of nums, counted from the first token that is not skipped, when
\* it is there and passes its gate
Gated(nums, p, Gate(_)) ==
    With({i \in 1..Len(nums) : ~Skipped(nums[i])}, LAMBDA kept :
        With(IF kept = {} THEN Len(nums) + p ELSE Min(kept) + p - 1, LAMBDA at :
            IF at <= Len(nums) /\ Gate(nums[at]) THEN Some(nums[at]) ELSE None))

AboveHundred(v) == v > 100
BelowTwoHundred(v) == v < 200
AnyValue(v) == TRUE

\* C22: after the leading tokens below 100 or within 1990-2100, the next
\* four tokens of the data line are assigned by position: the 1st is top_ft
\* if > 100, the 2nd bottom_ft if > 100, the 3rd the stage count if < 200,
\* the 4th the volume; a token that fails its gate leaves its field null and
\* the later fields where they are.
C22_AssignedByPosition ==
    (stimOut # None /\ The(stimOut) # <<>>) =>
        With(The(stimOut)[1], LAMBDA r :
            With(AssignedTokens(ExaminedLine, r), LAMBDA nums :
                /\ r.top_ft = Gated(nums, 1, AboveHundred)
                /\ r.bottom_ft = Gated(nums, 2, AboveHundred)
                /\ r.stimulation_stages = Gated(nums, 3, BelowTwoHundred)
                /\ r.volume = Gated(nums, 4, AnyValue)))

\* the second token failed its gate and the third and fourth kept their fields
C22_Witness ==
    /\ stimOut # None /\ The(stimOut) # <<>>
    /\ ExaminedLine.nums = <<9500, 12, 12, 450000>>
    /\ The(stimOut)[1].top_ft = Some(9500)
    /\ The(stimOut)[1].bottom_ft = None
    /\ The(stimOut)[1].stimulation_stages = Some(12)
    /\ The(stimOut)[1].volume = Some(450000)

(***************************************************************************)
(* SpecTreat: one block whose header, data line and 'Type Treatment' line  *)
(* are followed by up to MaxTreatLines treatment lines.                    *)
(***************************************************************************)
MaxTreatLines == 3

\* 'HCl Acid 15 250000 9000'
InlineAcidLine ==
    [StimLine("line", FALSE, None, None, Some("Acid"), <<15, 250000, 9000>>, None, TRUE)
        EXCEPT !.acid_inline = Some(15)]
\* 'Frac 40 8000 300000 7000 30'
LateMassLine ==
    StimLine("line", FALSE, None, None, Some("Frac"), <<40, 8000, 300000, 7000, 30>>,
             None, FALSE)
\* '20/40 Ceramic'
MeshLine == StimLine("mesh", FALSE, None, None, None, <<20, 40>>, None, TRUE)
\* 'Details: pumped in stages'
DetailsLine == StimLine("details", FALSE, None, None, None, <<>>, None, TRUE)
\* 'Sand Frac 1000 20000 200 0 150'
EdgeLine ==
    StimLine("line", FALSE, None, None, Some("Sand Frac"), <<1000, 20000, 200, 0, 150>>,
             None, FALSE)

TreatSamples ==
    {SandFracLine, AcidLine, InlineAcidLine, LateMassLine, MeshLine, DetailsLine, EdgeLine}

TreatPrefix == <<PreambleLine, HeaderLine, FullDataLine, TypeHeaderLine>>

TreatTexts ==
    {TreatPrefix \o t : t \in UNION {[1..n -> TreatSamples] : n \in 0..MaxTreatLines}}

InitTreat ==
    /\ stimIn \in TreatTexts
    /\ stimOut = None
    /\ PdfIdle /\ BatchIdle /\ CallIdle

SpecTreat == InitTreat /\ [][NextStim]_vars

\* the lines after the 'Type Treatment' line, up to the 'Details' line
RECURSIVE UpToDetails(_)
UpToDetails(ls) ==
    IF ls = <<>> \/ Head(ls).kind = "details" THEN <<>>
    ELSE <<Head(ls)>> \o UpToDetails(Tail(ls))

\* the numeric tokens of the lines, in text order
RECURSIVE TokensOf(_)
TokensOf(ls) == IF ls = <<>> THEN <<>> ELSE AllTokens(Head(ls)) \o TokensOf(Tail(ls))

\* the pool of the record: the tokens between the two markers, less the
\* acid percentage the record carries
TreatPool(text, r) ==
    LET all == TokensOf(UpToDetails(SubSeq(text, Len(TreatPrefix) + 1, Len(text))))
    IN  IF r.acid_pct = None THEN all ELSE RemoveFirst(all, The(r.acid_pct))

\* the first value of the pool strictly between lo and hi
RECURSIVE FirstBetween(_, _, _)
FirstBetween(pool, lo, hi) ==
    IF pool = <<>> THEN None
    ELSE IF lo < Head(pool) /\ Head(pool) < hi THEN Some(Head(pool))
    ELSE FirstBetween(Tail(pool), lo, hi)

\* C23: among the numeric tokens of the lines between the 'Type Treatment'
\* marker and the 'Details' marker, with the acid percentage removed first,
\* the proppant mass is the first value above 100,000, the pressure the first
\* value strictly between 1,000 and 20,000, the rate the first value strictly
\* between 0 and 200; a recorded acid percentage lies in (0, 100]
C23_TreatmentBuckets ==
    (stimOut # None /\ Len(stimIn) >= Len(TreatPrefix) /\ The(stimOut) # <<>>) =>
        LET r == The(stimOut)[1]
            pool == TreatPool(stimIn, r)
        IN  /\ r.lbs_proppant = FirstBetween(pool, 100000, 2000000000)
            /\ r.max_treatment_pressure_psi = FirstBetween(pool, 1000, 20000)
            /\ r.max_treatment_rate = FirstBetween(pool, 0, 200)
            /\ r.acid_pct # None => (0 < The(r.acid_pct) /\ The(r.acid_pct) <= 100)

\* the records of the blocks come first in the result, the records of the
\* secondary pass after them
BlockCount(text) == Len(BlockRows(StimBlocks(text)))

\* the masses the secondary pass meets, in text order
MatchedMasses(text) ==
    LET ms == SecondaryMatches(text, 1)
        big(i) == SelectSeq(ms[i].nums, LAMBDA v : v > ProppantMin)
    IN  [i \in {n \in 1..Len(ms) : big(n) # <<>>} |-> big(i)[1]]

\* C24: the secondary pass adds a record for a proppant mass only if no record
\* already in the result has that mass: no record of the secondary pass shares
\* its proppant mass with any other returned record, and every one of them
\* carries a mass the pass met
C24_SecondaryMassesUnique ==
    stimOut # None =>
        LET rows == The(stimOut)
            met == MatchedMasses(stimIn)
        IN  \A i \in (BlockCount(stimIn) + 1)..Len(rows) :
                /\ rows[i].lbs_proppant # None
                /\ \E n \in DOMAIN met : Some(met[n]) = rows[i].lbs_proppant
                /\ \A o \in 1..Len(rows) :
                       o # i => rows[o].lbs_proppant # rows[i].lbs_proppant

\* a mass the block's record carries and a mass met twice outside of it: one
\* record of the secondary pass
C24_Witness ==
    /\ stimOut # None
    /\ Len(The(stimOut)) = BlockCount(stimIn) + 1
    /\ BlockCount(stimIn) = 1
    /\ The(stimOut)[1].lbs_proppant = Some(250000)
    /\ The(stimOut)[2].lbs_proppant = Some(300000)
    /\ Cardinality(DOMAIN MatchedMasses(stimIn)) = 3

\* the text before the first 'Date Stimulated' header: it lies in no block
RECURSIVE BeforeBlocks(_)
BeforeBlocks(text) ==
    IF text = <<>> \/ Head(text).kind = "boundary" THEN <<>>
    ELSE <<Head(text)>> \o BeforeBlocks(Tail(text))

\* C25: the secondary pass produces records only from shapes that lie outside
\* every recognized block: when every block of the text yielded a record, each
\* record of the secondary pass carries a mass met before the first block
C25_SecondaryOutsideBlocks ==
    (stimOut # None /\ BlockCount(stimIn) = Len(StimBlocks(stimIn))) =>
        LET rows == The(stimOut)
            met == MatchedMasses(BeforeBlocks(stimIn))
        IN  \A i \in (BlockCount(stimIn) + 1)..Len(rows) :
                \E n \in DOMAIN met : Some(met[n]) = rows[i].lbs_proppant

(***************************************************************************)
(* preprocess.py: normalize_date, the date normalizer of the cleanup pass. *)
(* The sentinel 'N/A' is None; any other result is a date string.  The     *)
(* inputs are digits and one separator, so the quote-character cleanup and *)
(* the month-name format never apply.                                      *)
(***************************************************************************)
\* strptime's %y: values below 69 are years 2000-2068, the others 1969-1999
StrptimePivot == 69

\* ^\d{4}-\d{2}-\d{2}$
IsoForm(ds) ==
    /\ ds.sep = "-" /\ Len(ds.n) = 3
    /\ ds.n[1] \in 1000..9999 /\ ds.n[2] \in 0..99 /\ ds.n[3] \in 0..99

\* the year read by %Y (four digits) or by %y (two digits)
StrptimeYear(c) ==
    IF c \in 1000..9999 THEN Some(c)
    ELSE IF c \in 0..99
         THEN IF c < StrptimePivot THEN Some(2000 + c) ELSE Some(1900 + c)
         ELSE None

normalize_date(date) ==
    IF date = None THEN None
    ELSE LET ds == The(date)
         IN  IF IsoForm(ds) THEN date
             ELSE IF Len(ds.n) # 3 THEN date
             ELSE With(StrptimeYear(ds.n[3]), LAMBDA y :
                    IF y # None /\ ValidDate(The(y), ds.n[1], ds.n[2])
                    THEN Some([n |-> <<The(y), ds.n[1], ds.n[2]>>, sep |-> "-"])
                    ELSE date)

(***************************************************************************)
(* SpecNorm: the two date normalizers on the same date strings             *)
(***************************************************************************)
NormMonths == {2, 6, 12, 13}
NormDays == {1, 6, 29, 31}
NormYears == {0, 49, 50, 68, 69, 99, 1985, 2019}

NormInputs ==
    [n : {<<a, b, c>> : a \in NormMonths, b \in NormDays, c \in NormYears}
         \cup {<<c, a, b>> : a \in {6, 12}, b \in {1, 29}, c \in {1985, 2019}},
     sep : {"/", "-"}]

InitNorm ==
    /\ call \in {Some([fn |-> f, date_str |-> d]) :
                    f \in {"normalize_date_to_iso", "normalize_date"},
                    d \in {None} \cup {Some(x) : x \in NormInputs}}
    /\ ret = None
    /\ StimIdle /\ PdfIdle /\ BatchIdle

NormalizeDate ==
    /\ ret = None /\ The(call).fn = "normalize_date"
    /\ ret' = Some(normalize_date(The(call).date_str))
    /\ UNCHANGED <<call, stimVars, pdfVars, batchVars>>

NextNorm == NormalizeDateToIso \/ NormalizeDate

SpecNorm == InitNorm /\ [][NextNorm]_vars

\* the call was on a date string in ISO form
IsoCall ==
    /\ ret # None
    /\ The(call).date_str # None
    /\ IsoForm(The(The(call).date_str))

\* C26: both date normalizers return an input that is already in ISO form
\* YYYY-MM-DD unchanged
C26_IsoUnchanged == IsoCall => The(ret) = The(call).date_str

\* the call was on month/day/yy: a calendar date with a two-digit year
TwoDigitYearCall ==
    /\ ret # None
    /\ The(call).date_str # None
    /\ LET ds == The(The(call).date_str)
       IN  /\ ds.sep = "/" /\ Len(ds.n) = 3
           /\ ds.n[3] < 100
           /\ ValidDate(2000 + ds.n[3], ds.n[1], ds.n[2])
           /\ ValidDate(1900 + ds.n[3], ds.n[1], ds.n[2])

\* C28: on every slash-separated month/day/yy the cleanup pass's
\* normalize_date returns the ISO date that normalize_date_to_iso returns
C28_SamePivot ==
    (TwoDigitYearCall /\ The(call).fn = "normalize_date") =>
        The(ret) = normalize_date_to_iso(The(call).date_str)

(***************************************************************************)
(* scrape_drillingedge.py: main, for one well.  The scraper runs between   *)
(* two batches of the extractor, on the committed store.                   *)
(***************************************************************************)
\* what parse_well_page returns for a page
ScrapedData ==
    [well_status |-> Some("Active"), well_type |-> Some("Oil & Gas"),
     closest_city |-> Some("Williston"), barrels_oil_produced |-> Some("1.2 k"),
     mcf_gas_produced |-> Some("3.4 k"),
     drillingedge_url |-> Some("https://www.drillingedge.com/well")]

\* get_wells: the rows the scraper still has to visit
get_wells(store) ==
    {w \in store.wells :
        /\ w.cols["api_number"] # None
        /\ w.cols["well_name"] # None
        /\ w.cols["county"] # None
        /\ w.rest.enrichment["drillingedge_url"] \in {None, Some("")}}

\* UPDATE wells SET well_status = ?, ... WHERE id = ?
update_well(store, id, scraped) ==
    [store EXCEPT !.wells =
        {IF w.id = id THEN [w EXCEPT !.rest.enrichment = scraped] ELSE w : w \in @}]

\* one well of the scraper's loop whose page is fetched and parsed
ScrapeWell ==
    /\ pc \in {"done", "killed"}
    /\ \E w \in get_wells(db) :
          /\ w.cols["api_number"] # Some(NA)
          /\ db' = update_well(db, w.id, ScrapedData)
    /\ UNCHANGED <<conn, before, pc, run, disk, pdf_files, k, data, well_id, j,
                   inserted, failed, extracted, stimVars, pdfVars, callVars>>

NextEnrich == Next \/ ScrapeWell

SpecEnrich == Init /\ [][NextEnrich]_vars

\* the upsert of a document that already has a wells row
Reprocessed ==
    /\ pc = "upsert" /\ pc' = "select"
    /\ WellRowsOf(conn, The(data).pdf_source) # {}

\* C27: re-processing a document that already has a wells row updates that row
\* in place: the row keeps its id, and created_at and the scraper's columns
\* are left unchanged (and no other row is touched)
C27_UpsertKeepsRow ==
    [][Reprocessed =>
          /\ \A w \in WellRowsOf(conn, The(data).pdf_source) :
                \E u \in WellRowsOf(conn', The(data).pdf_source) :
                    u.id = w.id /\ u.rest = w.rest
          /\ Cardinality(conn'.wells) = Cardinality(conn.wells)
          /\ conn.wells \ WellRowsOf(conn, The(data).pdf_source) \subseteq conn'.wells]_vars

\* a row made by an earlier batch and scraped since has been upserted again
C27_Witness ==
    /\ pc = "select"
    /\ \E w \in WellRowsOf(conn, The(data).pdf_source) :
          /\ w.rest.created_at < run
          /\ w.rest.enrichment = ScrapedData
          /\ w.cols = WellValues(The(data))
          /\ \E b \in WellRowsOf(before, The(data).pdf_source) :
                b.id = w.id /\ b.cols # w.cols

(***************************************************************************)
(* preprocess.py: the coordinate columns of clean_wells, and app.py: the   *)
(* read of /api/wells.  A coordinate is an optional number of millionths   *)
(* of a degree; a wells table is the sequence of its rows, by id.          *)
(***************************************************************************)
ND_LATITUDE_MIN == 45934000
ND_LATITUDE_MAX == 48998200
ND_LONGITUDE_MIN == -104050100
ND_LONGITUDE_MAX == -96567100

validate_latitude(lat) ==
    IF lat = None \/ lat = Some(0) THEN 0
    ELSE With(Abs(The(lat)), LAMBDA v :
            IF ND_LATITUDE_MIN <= v /\ v <= ND_LATITUDE_MAX THEN v ELSE 0)

validate_longitude(lon) ==
    IF lon = None \/ lon = Some(0) THEN 0
    ELSE With(0 - Abs(The(lon)), LAMBDA v :
            IF ND_LONGITUDE_MIN <= v /\ v <= ND_LONGITUDE_MAX THEN v ELSE 0)

\* if cleaned != original and original not in (None, 0): changed[col] = cleaned
CleanedCoordinate(original, cleaned) ==
    IF Some(cleaned) # original /\ original \notin {None, Some(0)}
    THEN Some(cleaned) ELSE original

\* clean_wells, on the coordinate columns of every row
clean_wells(wells) ==
    [i \in DOMAIN wells |->
        [wells[i] EXCEPT
            !.latitude = CleanedCoordinate(@, validate_latitude(@)),
            !.longitude = CleanedCoordinate(@, validate_longitude(@))]]

\* SELECT id, ..., latitude, longitude ... WHERE latitude IS NOT NULL AND
\* longitude IS NOT NULL: the ids of the rows returned
api_wells(wells) ==
    {i \in DOMAIN wells : wells[i].latitude # None /\ wells[i].longitude # None}

(***************************************************************************)
(* SpecClean: the cleanup pass on a wells table, then the map read         *)
(***************************************************************************)
MaxWells == 2

\* NULL, 0, 47.5, -47.5, 35.12 and 93.5
StoredLatitudes == {None, Some(0), Some(47500000), Some(-47500000), Some(35120000),
                    Some(93500000)}
\* NULL, 0, -103.0, 103.0 and -85.25
StoredLongitudes == {None, Some(0), Some(-103000000), Some(103000000), Some(-85250000)}

StoredWells ==
    UNION {[1..n -> [latitude : StoredLatitudes, longitude : StoredLongitudes]] :
              n \in 0..MaxWells}

InitClean ==
    /\ call \in {Some([fn |-> "clean_wells", wells |-> w]) : w \in StoredWells}
    /\ ret = None
    /\ StimIdle /\ PdfIdle /\ BatchIdle

\* preprocess.py main: clean_wells and its commit
CleanWells ==
    /\ ret = None /\ The(call).fn = "clean_wells"
    /\ ret' = Some([wells |-> clean_wells(The(call).wells), served |-> None])
    /\ UNCHANGED <<call, stimVars, pdfVars, batchVars>>

\* GET /api/wells on the cleaned table
ServeWells ==
    /\ ret # None /\ The(call).fn = "clean_wells"
    /\ The(ret).served = None
    /\ ret' = Some([The(ret) EXCEPT !.served = Some(api_wells(The(ret).wells))])
    /\ UNCHANGED <<call, stimVars, pdfVars, batchVars>>

NextClean == CleanWells \/ ServeWells

SpecClean == InitClean /\ [][NextClean]_vars

\* the stored value is a coordinate the validator rejects: neither NULL nor 0,
\* and outside the North Dakota bounds
LatitudeRejected(lat) == lat \notin {None, Some(0)} /\ validate_latitude(lat) = 0
LongitudeRejected(lon) == lon \notin {None, Some(0)} /\ validate_longitude(lon) = 0

\* C29: after the cleanup pass a well whose stored latitude or longitude was
\* rejected by the validators is not returned by /api/wells
C29_RejectedNotServed ==
    (ret # None /\ The(ret).served # None) =>
        \A i \in DOMAIN The(call).wells :
            (\/ LatitudeRejected(The(call).wells[i].latitude)
             \/ LongitudeRejected(The(call).wells[i].longitude))
                => i \notin The(The(ret).served)

(***************************************************************************)
(* scrape_drillingedge.py: fetch_page.  The call holds what the server     *)
(* does at each request the function may issue; the function's locals are  *)
(* the attempt of the for loop, the requests issued, the sleeps taken and  *)
(* the value returned.                                                     *)
(***************************************************************************)
MAX_RETRIES == 3

\* session.get and raise_for_status: a page, or a requests.RequestException
RequestOutcomes == {"ok", "HTTPError", "Timeout", "ConnectionError"}

\* a loop that sleeps after every failed request
SleepsAfterEvery(attempt) == TRUE

\* if attempt < MAX_RETRIES: time.sleep(2)
SleepsAfter(attempt) == attempt < MAX_RETRIES

InitFetch ==
    /\ call \in {Some([fn |-> "fetch_page", outcomes |-> o]) :
                    o \in [1..MAX_RETRIES -> RequestOutcomes]}
    /\ ret = None
    /\ StimIdle /\ PdfIdle /\ BatchIdle

\* fetch_page is entered: for attempt in range(1, MAX_RETRIES + 1)
EnterFetch ==
    /\ ret = None /\ The(call).fn = "fetch_page"
    /\ ret' = Some([attempt |-> 1, requests |-> 0, sleeps |-> 0, returned |-> None])
    /\ UNCHANGED <<call, stimVars, pdfVars, batchVars>>

\* one pass of the loop body: the request, then the return or the except clause
TryRequest ==
    /\ ret # None /\ The(call).fn = "fetch_page"
    /\ The(ret).returned = None
    /\ The(ret).attempt <= MAX_RETRIES
    /\ LET loc == The(ret)
           outcome == The(call).outcomes[loc.attempt]
       IN  ret' = Some(
             IF outcome = "ok"
             THEN [loc EXCEPT !.requests = @ + 1, !.returned = Some("page")]
             ELSE [loc EXCEPT !.requests = @ + 1,
                              !.sleeps = IF SleepsAfter(loc.attempt) THEN @ + 1 ELSE @,
                              !.attempt = @ + 1])
    /\ UNCHANGED <<call, stimVars, pdfVars, batchVars>>

\* the loop is exhausted: return None, None
GiveUp ==
    /\ ret # None /\ The(call).fn = "fetch_page"
    /\ The(ret).returned = None
    /\ The(ret).attempt > MAX_RETRIES
    /\ ret' = Some([The(ret) EXCEPT !.returned = Some("none")])
    /\ UNCHANGED <<call, stimVars, pdfVars, batchVars>>

NextFetch == EnterFetch \/ TryRequest \/ GiveUp

\* the function runs on: nothing but the requests, which time out, can hold it
SpecFetch == InitFetch /\ [][NextFetch]_vars /\ WF_vars(NextFetch)

FetchReturned == ret # None /\ The(ret).returned # None

\* the requests that fail before the first that succeeds
RECURSIVE FailuresBefore(_, _)
FailuresBefore(outcomes, i) ==
    IF i > Len(outcomes) \/ outcomes[i] = "ok" THEN 0
    ELSE 1 + FailuresBefore(outcomes, i + 1)

FetchWithinRetries ==
    ret # None =>
        /\ The(ret).requests <= MAX_RETRIES
        /\ The(ret).returned = Some("page") =>
              /\ The(ret).requests = FailuresBefore(The(call).outcomes, 1) + 1
              /\ The(call).outcomes[The(ret).requests] = "ok"
        /\ The(ret).returned = Some("none") =>
              /\ The(ret).requests = MAX_RETRIES
              /\ FailuresBefore(The(call).outcomes, 1) = MAX_RETRIES
        /\ The(ret).returned # None => The(ret).sleeps = The(ret).requests - 1

\* C30: fetch_page always terminates after at most MAX_RETRIES requests: it
\* returns the first successful response without issuing further requests,
\* returns (None, None) only after MAX_RETRIES consecutive failed requests,
\* and sleeps between attempts but not after the last one
C30_FetchTerminates == []FetchWithinRetries /\ <>FetchReturned

\* three failed requests, two sleeps, and (None, None)
C30_Witness ==
    /\ ret # None
    /\ The(ret).returned = Some("none")
    /\ The(ret).requests = 3 /\ The(ret).sleeps = 2
====
